---- MODULE Spec2Model ----
(***************************************************************************)
(* A model of the 6502 interpreter of rust-nes-emulator (src/cpu.rs and    *)
(* src/opcodes.rs).                                                        *)
(*                                                                         *)
(* The CPU struct is the record `cpu`; every method of the source is an    *)
(* operator of the same name that takes the struct and returns the struct  *)
(* after the call.  The memory array is kept as the finite function of its *)
(* non-zero bytes (new() zeroes the array), indexed 0 .. MemLen - 1.       *)
(*                                                                         *)
(* A Rust panic is the field `panic` of the record: "" while none has      *)
(* happened.  An operator that returns a number (a read, an address)       *)
(* returns a negative number when the call panics instead of returning.    *)
(* Arithmetic written with + in the source panics on overflow when the     *)
(* build checks overflow (debug) and wraps when it does not (release):     *)
(* the variable overflow_checks is the build's choice.                     *)
(***************************************************************************)
EXTENDS Integers, Sequences, FiniteSets, TLC

VARIABLES
    cpu,              \* the CPU struct, and the panic that ended the call, if any
    run,              \* "idle" | "running" (in run's loop) | "returned" | "panicked"
    overflow_checks,  \* the build profile: TRUE checks + for overflow
    code,             \* the opcode byte of the last fetch, -1 before the first
    prev,             \* the CPU struct as the last fetch found it
    entry,            \* the CPU struct as run was entered
    steps,            \* fetches so far
    calls,            \* calls of the public interface so far
    op,               \* the last operation and the image it was given
    hook              \* the closure run was given: its invocations, and when it cancels

vars == <<cpu, run, overflow_checks, code, prev, entry, steps, calls, op, hook>>

-----------------------------------------------------------------------------
(* Integer widths and casts *)

U8 == 256
U16 == 65536

Byte == 0 .. 255

\* x as u8
as_u8(x) == x % U8

\* x as u16
as_u16(x) == x % U16

\* (b: u8) as i8
as_i8(b) == IF b >= 128 THEN b - U8 ELSE b

\* i8 arithmetic that wraps into -128 .. 127
wrap_i8(v) == ((v + 128) % U8) - 128

\* a bug: the sum of two bytes is not wrapped into a byte
add_u8_unwrapped(a, b) == a + b

\* u8::wrapping_add, u8::wrapping_sub
wrapping_add_u8(a, b) == (a + b) % U8
wrapping_sub_u8(a, b) == (a - b) % U8

\* u16::wrapping_add
wrapping_add_u16(a, b) == (a + b) % U16

RECURSIVE BitAnd(_, _)
BitAnd(a, b) ==
    IF a = 0 \/ b = 0 THEN 0
    ELSE (a % 2) * (b % 2) + 2 * BitAnd(a \div 2, b \div 2)

RECURSIVE BitOr(_, _)
BitOr(a, b) ==
    IF a = 0 THEN b
    ELSE IF b = 0 THEN a
    ELSE ((a % 2) + (b % 2) - (a % 2) * (b % 2)) + 2 * BitOr(a \div 2, b \div 2)

RECURSIVE BitXor(_, _)
BitXor(a, b) ==
    IF a = 0 THEN b
    ELSE IF b = 0 THEN a
    ELSE (((a % 2) + (b % 2)) % 2) + 2 * BitXor(a \div 2, b \div 2)

\* u8 << 1 and u8 >> n
shl1_u8(d) == (d * 2) % U8
shr_u8(d, n) == d \div (2 ^ n)

-----------------------------------------------------------------------------
(* Panics *)

IndexOutOfBounds == -1
AddOverflow == -2
ModeNotSupported == -3
SubOverflow == -4

PanicMessage(v) ==
    CASE v = IndexOutOfBounds -> "index out of bounds"
      [] v = AddOverflow      -> "attempt to add with overflow"
      [] v = ModeNotSupported -> "mode NoneAddressing is not supported"
      [] v = SubOverflow      -> "attempt to subtract with overflow"

Panic(c, msg) == IF c.panic = "" THEN [c EXCEPT !.panic = msg] ELSE c

\* a + b on u16 written with the + operator
add_u16(a, b) ==
    IF a + b < U16 THEN a + b
    ELSE IF overflow_checks THEN AddOverflow
    ELSE (a + b) % U16

\* a - b on u16 written with the - operator
sub_u16(a, b) ==
    IF a - b >= 0 THEN a - b
    ELSE IF overflow_checks THEN SubOverflow
    ELSE (a - b) % U16

-----------------------------------------------------------------------------
(* bitflags! CPUFlags *)

CARRY == 1
ZERO == 2
INTERRUPT_DISABLE == 4
DECIMAL_MODE == 8
BREAK == 16
BREAK2 == 32
OVERFLOW == 64
NEGATIVE == 128

contains(bits, flag) == (bits \div flag) % 2 = 1
insert(bits, flag) == IF contains(bits, flag) THEN bits ELSE bits + flag
remove(bits, flag) == IF contains(bits, flag) THEN bits - flag ELSE bits
set(bits, flag, value) == IF value THEN insert(bits, flag) ELSE remove(bits, flag)
from_bits_truncate(bits) == bits % U8

status_insert(c, flag) == [c EXCEPT !.status = insert(c.status, flag)]
status_remove(c, flag) == [c EXCEPT !.status = remove(c.status, flag)]

-----------------------------------------------------------------------------
(* Stack constants, memory *)

STACK == 256
STACK_RESET == 253
MemLen == 65535

\* the array with data at index addr
MemStore(memory, addr, data) ==
    IF data = 0
    THEN [a \in DOMAIN memory \ {addr} |-> memory[a]]
    ELSE [a \in DOMAIN memory \cup {addr} |-> IF a = addr THEN data ELSE memory[a]]

\* the array's byte at index addr < MemLen
MemByte(memory, addr) == IF addr \in DOMAIN memory THEN memory[addr] ELSE 0

mem_read(c, addr) ==
    IF addr < MemLen THEN MemByte(c.memory, addr) ELSE IndexOutOfBounds

mem_write(c, addr, data) ==
    IF c.panic # "" THEN c
    ELSE IF addr < MemLen THEN [c EXCEPT !.memory = MemStore(c.memory, addr, data)]
    ELSE Panic(c, PanicMessage(IndexOutOfBounds))

mem_read_u16(c, pos) ==
    LET lo == mem_read(c, pos)
        next == add_u16(pos, 1)
        hi == mem_read(c, next)
    IN  IF lo < 0 THEN lo
        ELSE IF next < 0 THEN next
        ELSE IF hi < 0 THEN hi
        ELSE BitOr(hi * U8, lo)

mem_write_u16(c, pos, data) ==
    LET hi == as_u8(shr_u8(data, 8))
        lo == as_u8(BitAnd(data, 255))
        c1 == mem_write(c, pos, lo)
        next == add_u16(pos, 1)
    IN  IF c1.panic # "" THEN c1
        ELSE IF next < 0 THEN Panic(c1, PanicMessage(next))
        ELSE mem_write(c1, next, hi)

-----------------------------------------------------------------------------
(* trait Stack: a pop returns the struct after the pop and the byte popped *)

\* a bug: the byte is read before the stack pointer moves
stack_pop_then_move(c) ==
    [cpu |-> [c EXCEPT !.stack_pointer = wrapping_add_u8(c.stack_pointer, 1)],
     data |-> mem_read(c, STACK + c.stack_pointer)]

\* a bug: the pull clears the stack byte it reads
stack_pop_clearing(c) ==
    LET sp == wrapping_add_u8(c.stack_pointer, 1)
        c1 == [c EXCEPT !.stack_pointer = sp]
    IN  [cpu |-> mem_write(c1, STACK + sp, 0), data |-> mem_read(c1, STACK + sp)]

stack_pop(c) ==
    LET sp == wrapping_add_u8(c.stack_pointer, 1)
        c1 == [c EXCEPT !.stack_pointer = sp]
    IN  [cpu |-> c1, data |-> mem_read(c1, STACK + sp)]

\* a bug: the stack pointer moves before the byte is written
stack_push_move_first(c, data) ==
    LET sp == wrapping_sub_u8(c.stack_pointer, 1)
    IN  [mem_write(c, STACK + sp, data) EXCEPT !.stack_pointer = sp]

stack_push(c, data) ==
    LET c1 == mem_write(c, STACK + c.stack_pointer, data)
    IN  [c1 EXCEPT !.stack_pointer = wrapping_sub_u8(c.stack_pointer, 1)]

stack_pop_u16(c) ==
    LET lo == stack_pop(c)
        hi == stack_pop(lo.cpu)
    IN  [cpu |-> hi.cpu, data |-> BitOr(hi.data * U8, lo.data)]

stack_push_u16(c, data) ==
    LET hi == as_u8(shr_u8(data, 8))
        lo == as_u8(BitAnd(data, 255))
    IN  stack_push(stack_push(c, hi), lo)

-----------------------------------------------------------------------------
(* impl CPU: construction and helpers *)

EmptyMemory == [a \in {} |-> 0]

new ==
    [register_a |-> 0, register_x |-> 0, register_y |-> 0,
     status |-> from_bits_truncate(36),
     program_counter |-> 0,
     stack_pointer |-> STACK_RESET,
     memory |-> EmptyMemory,
     panic |-> ""]

get_operand_address(c, mode) ==
    LET pc == c.program_counter IN
    CASE mode = "Immediate" -> pc
      [] mode = "ZeroPage" -> mem_read(c, pc)
      [] mode = "ZeroPage_X" ->
            LET pos == mem_read(c, pc)
            IN  IF pos < 0 THEN pos ELSE wrapping_add_u8(pos, c.register_x)
      [] mode = "ZeroPage_Y" ->
            LET pos == mem_read(c, pc)
            IN  IF pos < 0 THEN pos ELSE wrapping_add_u8(pos, c.register_y)
      [] mode = "Absolute" -> mem_read_u16(c, pc)
      [] mode = "Absolute_X" ->
            LET base == mem_read_u16(c, pc)
            IN  IF base < 0 THEN base ELSE wrapping_add_u16(base, c.register_x)
      [] mode = "Absolute_Y" ->
            LET base == mem_read_u16(c, pc)
            IN  IF base < 0 THEN base ELSE wrapping_add_u16(base, c.register_y)
      [] mode = "Indirect_X" ->
            LET base == mem_read(c, pc)
                ptr == wrapping_add_u8(base, c.register_x)
                lo == mem_read(c, ptr)
                hi == mem_read(c, wrapping_add_u8(ptr, 1))
            IN  IF base < 0 THEN base ELSE BitOr(hi * U8, lo)
      [] mode = "Indirect_Y" ->
            LET base == mem_read(c, pc)
                lo == mem_read(c, base)
                hi == mem_read(c, wrapping_add_u8(base, 1))
                deref_base == BitOr(hi * U8, lo)
            IN  IF base < 0 THEN base ELSE wrapping_add_u16(deref_base, c.register_y)
      [] mode = "NoneAddressing" -> ModeNotSupported

\* a bug: a non-zero result leaves Z as it was
update_zero_sticky(c, result) ==
    [c EXCEPT !.status =
        set(IF result = 0 THEN insert(c.status, ZERO) ELSE c.status,
            NEGATIVE, BitAnd(result, 128) # 0)]

update_zero_and_negative_flags(c, result) ==
    LET c1 == IF result = 0 THEN status_insert(c, ZERO) ELSE status_remove(c, ZERO)
    IN  IF BitAnd(result, 128) # 0
        THEN status_insert(c1, NEGATIVE)
        ELSE status_remove(c1, NEGATIVE)

set_register_a(c, data) ==
    update_zero_and_negative_flags([c EXCEPT !.register_a = data], data)

set_register_x(c, data) ==
    update_zero_and_negative_flags([c EXCEPT !.register_x = data], data)

set_register_y(c, data) ==
    update_zero_and_negative_flags([c EXCEPT !.register_y = data], data)

clc(c) == status_remove(c, CARRY)
cld(c) == status_remove(c, DECIMAL_MODE)
cli(c) == status_remove(c, INTERRUPT_DISABLE)
clv(c) == status_remove(c, OVERFLOW)
\* a bug: SEC leaves the carry as it is
sec_nothing(c) == c

sec(c) == status_insert(c, CARRY)
sed(c) == status_insert(c, DECIMAL_MODE)
sei(c) == status_insert(c, INTERRUPT_DISABLE)

\* a bug: the carry is not added in
add_without_carry(c, data) ==
    LET sum == c.register_a + data
        c1 == IF sum > 255 THEN sec(c) ELSE clc(c)
        result == as_u8(sum)
        c2 == IF BitAnd(BitAnd(BitXor(data, result), BitXor(result, c.register_a)), 128) # 0
              THEN status_insert(c1, OVERFLOW)
              ELSE clv(c1)
    IN  set_register_a(c2, result)

\* a bug: with D set the sum is adjusted to decimal
add_decimal(c, data) ==
    LET binary == c.register_a + data + (IF contains(c.status, CARRY) THEN 1 ELSE 0)
        sum == IF contains(c.status, DECIMAL_MODE) /\ (binary % 16) > 9
               THEN binary + 6 ELSE binary
        c1 == IF sum > 255 THEN sec(c) ELSE clc(c)
        result == as_u8(sum)
        c2 == IF BitAnd(BitAnd(BitXor(data, result), BitXor(result, c.register_a)), 128) # 0
              THEN status_insert(c1, OVERFLOW)
              ELSE clv(c1)
    IN  set_register_a(c2, result)

add_to_register_a(c, data) ==
    LET sum == c.register_a + data + (IF contains(c.status, CARRY) THEN 1 ELSE 0)
        carry == sum > 255
        c1 == IF carry THEN sec(c) ELSE clc(c)
        result == as_u8(sum)
        c2 == IF BitAnd(BitAnd(BitXor(data, result), BitXor(result, c.register_a)), 128) # 0
              THEN status_insert(c1, OVERFLOW)
              ELSE clv(c1)
    IN  set_register_a(c2, result)

-----------------------------------------------------------------------------
(* impl CPU: the instructions *)

\* the struct `done` when the number v was computed, the panic when it was not
OrPanic(c, v, done) == IF v < 0 THEN Panic(c, PanicMessage(v)) ELSE done

\* let addr = self.get_operand_address(mode); let data = self.mem_read(addr);
\* then Body(addr, data): the first two lines of every method that reads its operand
ReadAt(c, addr, Body(_, _)) ==
    IF addr < 0 THEN Panic(c, PanicMessage(addr))
    ELSE OrPanic(c, mem_read(c, addr), Body(addr, mem_read(c, addr)))

WithOperand(c, mode, Body(_, _)) == ReadAt(c, get_operand_address(c, mode), Body)

\* if bit { self.sec() } else { self.clc() }
carry_from(c, bit) == IF bit THEN sec(c) ELSE clc(c)

\* self.mem_write(addr, data); self.update_zero_and_negative_flags(data);
write_back(c, addr, data) ==
    update_zero_and_negative_flags(mem_write(c, addr, data), data)

adc(c, mode) ==
    WithOperand(c, mode, LAMBDA addr, data : add_to_register_a(c, data))

and(c, mode) ==
    WithOperand(c, mode, LAMBDA addr, data :
        set_register_a(c, BitAnd(data, c.register_a)))

asl_accumulator(c) ==
    set_register_a(carry_from(c, shr_u8(c.register_a, 7) = 1), shl1_u8(c.register_a))

asl(c, mode) ==
    WithOperand(c, mode, LAMBDA addr, data :
        write_back(carry_from(c, shr_u8(data, 7) = 1), addr, shl1_u8(data)))

branch(c, condition) ==
    IF condition
    THEN OrPanic(c, mem_read(c, c.program_counter),
            [c EXCEPT !.program_counter =
                wrapping_add_u16(wrapping_add_u16(c.program_counter, 1),
                                 as_u16(as_i8(mem_read(c, c.program_counter))))])
    ELSE c

\* a bug: N and V are taken from A AND m, not from m
bit_of_and(c, mode) ==
    WithOperand(c, mode, LAMBDA addr, data :
        [c EXCEPT !.status =
            set(set(set(c.status, ZERO, BitAnd(c.register_a, data) = 0),
                    NEGATIVE, BitAnd(BitAnd(c.register_a, data), 128) > 0),
                OVERFLOW, BitAnd(BitAnd(c.register_a, data), 64) > 0)])

bit(c, mode) ==
    WithOperand(c, mode, LAMBDA addr, data :
        [c EXCEPT !.status =
            set(set(set(c.status, ZERO, BitAnd(c.register_a, data) = 0),
                    NEGATIVE, BitAnd(data, 128) > 0),
                OVERFLOW, BitAnd(data, 64) > 0)])

\* a bug: the carry is set only when the operand is smaller
compare_strict(c, mode, compare_with) ==
    WithOperand(c, mode, LAMBDA addr, data :
        update_zero_and_negative_flags(carry_from(c, data < compare_with),
                                       wrapping_sub_u8(compare_with, data)))

compare(c, mode, compare_with) ==
    WithOperand(c, mode, LAMBDA addr, data :
        update_zero_and_negative_flags(carry_from(c, data <= compare_with),
                                       wrapping_sub_u8(compare_with, data)))

dec(c, mode) ==
    WithOperand(c, mode, LAMBDA addr, data :
        write_back(c, addr, wrapping_sub_u8(data, 1)))

dex(c) == set_register_x(c, wrapping_sub_u8(c.register_x, 1))

dey(c) == set_register_y(c, wrapping_sub_u8(c.register_y, 1))

eor(c, mode) ==
    WithOperand(c, mode, LAMBDA addr, data :
        set_register_a(c, BitXor(data, c.register_a)))

inc(c, mode) ==
    WithOperand(c, mode, LAMBDA addr, data :
        write_back(c, addr, wrapping_add_u8(data, 1)))

\* a bug: X stays at $FF instead of wrapping to $00
inx_saturating(c) ==
    set_register_x(c, IF c.register_x = 255 THEN 255 ELSE c.register_x + 1)

inx(c) == set_register_x(c, wrapping_add_u8(c.register_x, 1))

iny(c) == set_register_y(c, wrapping_add_u8(c.register_y, 1))

\* self.program_counter = pc, for a pc that was computed
set_program_counter(c, pc) == OrPanic(c, pc, [c EXCEPT !.program_counter = pc])

\* self.program_counter + 2 - 1
jsr_return(c) ==
    IF add_u16(c.program_counter, 2) < 0 THEN add_u16(c.program_counter, 2)
    ELSE sub_u16(add_u16(c.program_counter, 2), 1)

\* let target_address = self.mem_read_u16(self.program_counter); self.program_counter = ..
jsr_jump(c) == set_program_counter(c, mem_read_u16(c, c.program_counter))

jsr(c) ==
    OrPanic(c, jsr_return(c), jsr_jump(stack_push_u16(c, jsr_return(c))))

lda(c, mode) ==
    WithOperand(c, mode, LAMBDA addr, data : set_register_a(c, data))

ldx(c, mode) ==
    WithOperand(c, mode, LAMBDA addr, data : set_register_x(c, data))

ldy(c, mode) ==
    WithOperand(c, mode, LAMBDA addr, data : set_register_y(c, data))

lsr_accumulator(c) ==
    set_register_a(carry_from(c, BitAnd(c.register_a, 1) = 1), shr_u8(c.register_a, 1))

lsr(c, mode) ==
    WithOperand(c, mode, LAMBDA addr, data :
        write_back(carry_from(c, BitAnd(data, 1) = 1), addr, shr_u8(data, 1)))

ora(c, mode) ==
    WithOperand(c, mode, LAMBDA addr, data :
        set_register_a(c, BitOr(data, c.register_a)))

pha(c) == stack_push(c, c.register_a)

\* a bug: the byte pushed is P as it is
php_plain(c) == stack_push(c, c.status)

php(c) == stack_push(c, insert(insert(c.status, BREAK), BREAK2))

\* self.set_register_a(data) for the popped data
pla_set(popped) == set_register_a(popped.cpu, popped.data)

pla(c) == pla_set(stack_pop(c))

\* a bug: B is left as the popped byte has it
pull_status_keeps_break(popped) ==
    [popped.cpu EXCEPT !.status = insert(popped.data, BREAK2)]

\* self.status.bits = data; remove(BREAK); insert(BREAK2), for the popped data
pull_status(popped) ==
    [popped.cpu EXCEPT !.status = insert(remove(popped.data, BREAK), BREAK2)]

\* a bug: PLP takes the popped byte as it is
plp_raw(c) == [stack_pop(c).cpu EXCEPT !.status = stack_pop(c).data]

plp(c) == pull_status(stack_pop(c))

\* a bug: the old carry is not brought into bit 0 (ROL as ASL)
rol_data_shifting(data, old_carry) == shl1_u8(data)

\* data << 1, then | 1 if old_carry
rol_data(data, old_carry) ==
    IF old_carry THEN BitOr(shl1_u8(data), 1) ELSE shl1_u8(data)

\* a bug: bit 7 takes the bit shifted out, not the carry that came in
ror_data_circular(data, old_carry) ==
    IF data % 2 = 1 THEN BitOr(shr_u8(data, 1), 128) ELSE shr_u8(data, 1)

\* data >> 1, then | 0b10000000 if old_carry
ror_data(data, old_carry) ==
    IF old_carry THEN BitOr(shr_u8(data, 1), 128) ELSE shr_u8(data, 1)

rol(c, mode) ==
    WithOperand(c, mode, LAMBDA addr, data :
        write_back(carry_from(c, shr_u8(data, 7) = 1), addr,
                   rol_data(data, contains(c.status, CARRY))))

rol_accumulator(c) ==
    set_register_a(carry_from(c, shr_u8(c.register_a, 7) = 1),
                   rol_data(c.register_a, contains(c.status, CARRY)))

ror(c, mode) ==
    WithOperand(c, mode, LAMBDA addr, data :
        write_back(carry_from(c, BitAnd(data, 1) = 1), addr,
                   ror_data(data, contains(c.status, CARRY))))

ror_accumulator(c) ==
    set_register_a(carry_from(c, BitAnd(c.register_a, 1) = 1),
                   ror_data(c.register_a, contains(c.status, CARRY)))

\* self.program_counter = the popped word
rti_jump(popped) == [popped.cpu EXCEPT !.program_counter = popped.data]

\* a bug: the program counter is popped before the status
rti_pc_first(c) == pull_status(stack_pop(rti_jump(stack_pop_u16(c))))

rti(c) == rti_jump(stack_pop_u16(pull_status(stack_pop(c))))

\* self.program_counter = the popped word + 1
rts_jump(popped) == set_program_counter(popped.cpu, add_u16(popped.data, 1))

rts(c) == rts_jump(stack_pop_u16(c))

\* a bug: the operand is negated, not complemented
sbc_operand_negated(data) == as_u8(wrap_i8(0 - as_i8(data)))

\* a bug: the operand is decremented without being negated
sbc_operand_unnegated(data) == as_u8(wrap_i8(as_i8(data) - 1))

\* ((data as i8).wrapping_neg().wrapping_sub(1)) as u8
sbc_operand(data) == as_u8(wrap_i8(wrap_i8(0 - as_i8(data)) - 1))

sbc(c, mode) ==
    WithOperand(c, mode, LAMBDA addr, data :
        add_to_register_a(c, sbc_operand(data)))

\* self.mem_write(addr, value) for an addr that was computed
store(c, addr, value) == OrPanic(c, addr, mem_write(c, addr, value))

\* a bug: the store sets Z and N from A as a load does
sta_with_flags(c, mode) ==
    update_zero_and_negative_flags(store(c, get_operand_address(c, mode), c.register_a),
                                   c.register_a)

sta(c, mode) == store(c, get_operand_address(c, mode), c.register_a)

stx(c, mode) == store(c, get_operand_address(c, mode), c.register_x)

sty(c, mode) == store(c, get_operand_address(c, mode), c.register_y)

tax(c) ==
    update_zero_and_negative_flags([c EXCEPT !.register_x = c.register_a], c.register_a)

tay(c) ==
    update_zero_and_negative_flags([c EXCEPT !.register_y = c.register_a], c.register_a)

tsx(c) ==
    update_zero_and_negative_flags([c EXCEPT !.register_x = c.stack_pointer],
                                   c.stack_pointer)

txa(c) ==
    update_zero_and_negative_flags([c EXCEPT !.register_a = c.register_x], c.register_x)

\* a bug: TXS sets Z and N like the other transfers
txs_with_flags(c) ==
    update_zero_and_negative_flags([c EXCEPT !.stack_pointer = c.register_x], c.register_x)

txs(c) == [c EXCEPT !.stack_pointer = c.register_x]

tya(c) ==
    update_zero_and_negative_flags([c EXCEPT !.register_a = c.register_y], c.register_y)

\* the 0x4C arm of run_with_callback
jmp_absolute(c) == set_program_counter(c, mem_read_u16(c, c.program_counter))

\* the word the 0x6C arm reads through mem_address
indirect_ref(c, mem_address) ==
    IF mem_address < 0 THEN mem_address
    ELSE IF BitAnd(mem_address, 255) = 255
    THEN (IF mem_read(c, mem_address) < 0 THEN mem_read(c, mem_address)
          ELSE BitOr(mem_read(c, BitAnd(mem_address, 255)) * U8,
                     mem_read(c, mem_address)))
    ELSE mem_read_u16(c, mem_address)

\* the 0x6C arm of run_with_callback
jmp_indirect(c) ==
    set_program_counter(c, indirect_ref(c, mem_read_u16(c, c.program_counter)))

-----------------------------------------------------------------------------
(* opcodes.rs: the opcode table *)

\* a bug: the entry of LDA immediate is given no addressing mode
OpCode_new_implied(opcode, mnemonic, len, cycles, mode) ==
    [code |-> opcode, mnemonic |-> mnemonic, len |-> len, cycles |-> cycles,
     mode |-> IF opcode = 169 THEN "NoneAddressing" ELSE mode]

OpCode_new(opcode, mnemonic, len, cycles, mode) ==
    [code |-> opcode, mnemonic |-> mnemonic, len |-> len, cycles |-> cycles, mode |-> mode]

CPU_OPCODES == <<
    OpCode_new(105, "ADC", 2, 2, "Immediate"),
    OpCode_new(101, "ADC", 2, 3, "ZeroPage"),
    OpCode_new(117, "ADC", 2, 4, "ZeroPage_X"),
    OpCode_new(109, "ADC", 3, 4, "Absolute"),
    OpCode_new(125, "ADC", 3, 4, "Absolute_X"),
    OpCode_new(121, "ADC", 3, 4, "Absolute_Y"),
    OpCode_new(97, "ADC", 2, 6, "Indirect_X"),
    OpCode_new(113, "ADC", 2, 5, "Indirect_Y"),
    OpCode_new(41, "AND", 2, 2, "Immediate"),
    OpCode_new(37, "AND", 2, 3, "ZeroPage"),
    OpCode_new(53, "AND", 2, 4, "ZeroPage_X"),
    OpCode_new(45, "AND", 3, 4, "Absolute"),
    OpCode_new(61, "AND", 3, 4, "Absolute_X"),
    OpCode_new(57, "AND", 3, 4, "Absolute_Y"),
    OpCode_new(33, "AND", 2, 6, "Indirect_X"),
    OpCode_new(49, "AND", 2, 5, "Indirect_Y"),
    OpCode_new(10, "ASL", 1, 2, "NoneAddressing"),
    OpCode_new(6, "ASL", 2, 5, "ZeroPage"),
    OpCode_new(22, "ASL", 2, 6, "ZeroPage_X"),
    OpCode_new(14, "ASL", 3, 6, "Absolute"),
    OpCode_new(30, "ASL", 3, 7, "Absolute_X"),
    OpCode_new(36, "BIT", 2, 3, "ZeroPage"),
    OpCode_new(44, "BIT", 3, 4, "Absolute"),
    OpCode_new(16, "BPL", 2, 2, "NoneAddressing"),
    OpCode_new(48, "BMI", 2, 2, "NoneAddressing"),
    OpCode_new(80, "BVC", 2, 2, "NoneAddressing"),
    OpCode_new(112, "BVS", 2, 2, "NoneAddressing"),
    OpCode_new(144, "BCC", 2, 2, "NoneAddressing"),
    OpCode_new(176, "BCS", 2, 2, "NoneAddressing"),
    OpCode_new(208, "BNE", 2, 2, "NoneAddressing"),
    OpCode_new(240, "BEQ", 2, 2, "NoneAddressing"),
    OpCode_new(0, "BRK", 1, 7, "NoneAddressing"),
    OpCode_new(201, "CMP", 2, 2, "Immediate"),
    OpCode_new(197, "CMP", 2, 3, "ZeroPage"),
    OpCode_new(213, "CMP", 2, 4, "ZeroPage_X"),
    OpCode_new(205, "CMP", 3, 4, "Absolute"),
    OpCode_new(221, "CMP", 3, 4, "Absolute_X"),
    OpCode_new(217, "CMP", 3, 4, "Absolute_Y"),
    OpCode_new(193, "CMP", 2, 6, "Indirect_X"),
    OpCode_new(209, "CMP", 2, 5, "Indirect_Y"),
    OpCode_new(224, "CPX", 2, 2, "Immediate"),
    OpCode_new(228, "CPX", 2, 3, "ZeroPage"),
    OpCode_new(236, "CPX", 3, 4, "Absolute"),
    OpCode_new(192, "CPY", 2, 2, "Immediate"),
    OpCode_new(196, "CPY", 2, 3, "ZeroPage"),
    OpCode_new(204, "CPY", 3, 4, "Absolute"),
    OpCode_new(198, "DEC", 2, 5, "ZeroPage"),
    OpCode_new(214, "DEC", 2, 6, "ZeroPage_X"),
    OpCode_new(206, "DEC", 3, 6, "Absolute"),
    OpCode_new(222, "DEC", 3, 7, "Absolute_X"),
    OpCode_new(73, "EOR", 2, 2, "Immediate"),
    OpCode_new(69, "EOR", 2, 3, "ZeroPage"),
    OpCode_new(85, "EOR", 2, 4, "ZeroPage_X"),
    OpCode_new(77, "EOR", 3, 4, "Absolute"),
    OpCode_new(93, "EOR", 3, 4, "Absolute_X"),
    OpCode_new(89, "EOR", 3, 4, "Absolute_Y"),
    OpCode_new(65, "EOR", 2, 6, "Indirect_X"),
    OpCode_new(81, "EOR", 2, 5, "Indirect_Y"),
    OpCode_new(24, "CLC", 1, 2, "NoneAddressing"),
    OpCode_new(56, "SEC", 1, 2, "NoneAddressing"),
    OpCode_new(88, "CLI", 1, 2, "NoneAddressing"),
    OpCode_new(120, "SEI", 1, 2, "NoneAddressing"),
    OpCode_new(184, "CLV", 1, 2, "NoneAddressing"),
    OpCode_new(216, "CLD", 1, 2, "NoneAddressing"),
    OpCode_new(248, "SED", 1, 2, "NoneAddressing"),
    OpCode_new(230, "INC", 2, 5, "ZeroPage"),
    OpCode_new(246, "INC", 2, 6, "ZeroPage_X"),
    OpCode_new(238, "INC", 3, 6, "Absolute"),
    OpCode_new(254, "INC", 3, 7, "Absolute_X"),
    OpCode_new(76, "JMP", 3, 3, "NoneAddressing"),
    OpCode_new(108, "JMP", 3, 5, "NoneAddressing"),
    OpCode_new(32, "JSR", 3, 6, "NoneAddressing"),
    OpCode_new(169, "LDA", 2, 2, "Immediate"),
    OpCode_new(165, "LDA", 2, 3, "ZeroPage"),
    OpCode_new(181, "LDA", 2, 4, "ZeroPage_X"),
    OpCode_new(173, "LDA", 3, 4, "Absolute"),
    OpCode_new(189, "LDA", 3, 4, "Absolute_X"),
    OpCode_new(185, "LDA", 3, 4, "Absolute_Y"),
    OpCode_new(161, "LDA", 2, 6, "Indirect_X"),
    OpCode_new(177, "LDA", 2, 5, "Indirect_Y"),
    OpCode_new(162, "LDX", 2, 2, "Immediate"),
    OpCode_new(166, "LDX", 2, 3, "ZeroPage"),
    OpCode_new(182, "LDX", 2, 4, "ZeroPage_Y"),
    OpCode_new(174, "LDX", 3, 4, "Absolute"),
    OpCode_new(190, "LDX", 3, 4, "Absolute_Y"),
    OpCode_new(160, "LDY", 2, 2, "Immediate"),
    OpCode_new(164, "LDY", 2, 3, "ZeroPage"),
    OpCode_new(180, "LDY", 2, 4, "ZeroPage_X"),
    OpCode_new(172, "LDY", 3, 4, "Absolute"),
    OpCode_new(188, "LDY", 3, 4, "Absolute_X"),
    OpCode_new(74, "LSR", 1, 2, "NoneAddressing"),
    OpCode_new(70, "LSR", 2, 5, "ZeroPage"),
    OpCode_new(86, "LSR", 2, 6, "ZeroPage_X"),
    OpCode_new(78, "LSR", 3, 6, "Absolute"),
    OpCode_new(94, "LSR", 3, 7, "Absolute_X"),
    OpCode_new(234, "NOP", 1, 2, "NoneAddressing"),
    OpCode_new(9, "ORA", 2, 2, "Immediate"),
    OpCode_new(5, "ORA", 2, 3, "ZeroPage"),
    OpCode_new(21, "ORA", 2, 4, "ZeroPage_X"),
    OpCode_new(13, "ORA", 3, 4, "Absolute"),
    OpCode_new(29, "ORA", 3, 4, "Absolute_X"),
    OpCode_new(25, "ORA", 3, 4, "Absolute_Y"),
    OpCode_new(1, "ORA", 2, 6, "Indirect_X"),
    OpCode_new(17, "ORA", 2, 5, "Indirect_Y"),
    OpCode_new(170, "TAX", 1, 2, "NoneAddressing"),
    OpCode_new(138, "TXA", 1, 2, "NoneAddressing"),
    OpCode_new(202, "DEX", 1, 2, "NoneAddressing"),
    OpCode_new(232, "INX", 1, 2, "NoneAddressing"),
    OpCode_new(168, "TAY", 1, 2, "NoneAddressing"),
    OpCode_new(152, "TYA", 1, 2, "NoneAddressing"),
    OpCode_new(136, "DEY", 1, 2, "NoneAddressing"),
    OpCode_new(200, "INY", 1, 2, "NoneAddressing"),
    OpCode_new(42, "ROL", 1, 2, "NoneAddressing"),
    OpCode_new(38, "ROL", 2, 5, "ZeroPage"),
    OpCode_new(54, "ROL", 2, 6, "ZeroPage_X"),
    OpCode_new(46, "ROL", 3, 6, "Absolute"),
    OpCode_new(62, "ROL", 3, 7, "Absolute_X"),
    OpCode_new(106, "ROR", 1, 2, "NoneAddressing"),
    OpCode_new(102, "ROR", 2, 5, "ZeroPage"),
    OpCode_new(118, "ROR", 2, 6, "ZeroPage_X"),
    OpCode_new(110, "ROR", 3, 6, "Absolute"),
    OpCode_new(126, "ROR", 3, 7, "Absolute_X"),
    OpCode_new(64, "RTI", 1, 6, "NoneAddressing"),
    OpCode_new(96, "RTS", 1, 6, "NoneAddressing"),
    OpCode_new(233, "SBC", 2, 2, "Immediate"),
    OpCode_new(229, "SBC", 2, 3, "ZeroPage"),
    OpCode_new(245, "SBC", 2, 4, "ZeroPage_X"),
    OpCode_new(237, "SBC", 3, 4, "Absolute"),
    OpCode_new(253, "SBC", 3, 4, "Absolute_X"),
    OpCode_new(249, "SBC", 3, 4, "Absolute_Y"),
    OpCode_new(225, "SBC", 2, 6, "Indirect_X"),
    OpCode_new(241, "SBC", 2, 5, "Indirect_Y"),
    OpCode_new(133, "STA", 2, 3, "ZeroPage"),
    OpCode_new(149, "STA", 2, 4, "ZeroPage_X"),
    OpCode_new(141, "STA", 3, 4, "Absolute"),
    OpCode_new(157, "STA", 3, 5, "Absolute_X"),
    OpCode_new(153, "STA", 3, 5, "Absolute_Y"),
    OpCode_new(129, "STA", 2, 6, "Indirect_X"),
    OpCode_new(145, "STA", 2, 6, "Indirect_Y"),
    OpCode_new(154, "TXS", 1, 2, "NoneAddressing"),
    OpCode_new(186, "TSX", 1, 2, "NoneAddressing"),
    OpCode_new(72, "PHA", 1, 3, "NoneAddressing"),
    OpCode_new(104, "PLA", 1, 4, "NoneAddressing"),
    OpCode_new(8, "PHP", 1, 3, "NoneAddressing"),
    OpCode_new(40, "PLP", 1, 4, "NoneAddressing"),
    OpCode_new(134, "STX", 2, 3, "ZeroPage"),
    OpCode_new(150, "STX", 2, 4, "ZeroPage_Y"),
    OpCode_new(142, "STX", 3, 4, "Absolute"),
    OpCode_new(132, "STY", 2, 3, "ZeroPage"),
    OpCode_new(148, "STY", 2, 4, "ZeroPage_X"),
    OpCode_new(140, "STY", 3, 4, "Absolute")
>>

\* a bug: the map is built from all entries but the last
OPCODES_MAP_short ==
    LET keys == {CPU_OPCODES[i].code : i \in 1 .. (Len(CPU_OPCODES) - 1)}
        last(k) == CHOOSE i \in DOMAIN CPU_OPCODES :
                      /\ CPU_OPCODES[i].code = k
                      /\ \A j \in DOMAIN CPU_OPCODES : CPU_OPCODES[j].code = k => j <= i
    IN  [k \in keys |-> CPU_OPCODES[last(k)]]

\* HashMap::insert over the list in order: the last entry with a code is the one kept
OPCODES_MAP ==
    LET keys == {CPU_OPCODES[i].code : i \in DOMAIN CPU_OPCODES}
        last(k) == CHOOSE i \in DOMAIN CPU_OPCODES :
                      /\ CPU_OPCODES[i].code = k
                      /\ \A j \in DOMAIN CPU_OPCODES : CPU_OPCODES[j].code = k => j <= i
    IN  [k \in keys |-> CPU_OPCODES[last(k)]]

-----------------------------------------------------------------------------
(* run_with_callback *)

HexDigit == <<"0", "1", "2", "3", "4", "5", "6", "7",
              "8", "9", "a", "b", "c", "d", "e", "f">>

\* format!("{:x}", n)
RECURSIVE format_x(_)
format_x(n) ==
    IF n < 16 THEN HexDigit[n + 1]
    ELSE format_x(n \div 16) \o HexDigit[(n % 16) + 1]

\* the match on the opcode byte: the struct after the arm has run
dispatch(c, opc, opcode) ==
    CASE opc \in {105, 101, 117, 109, 125, 121, 97, 113} -> adc(c, opcode.mode)
      [] opc \in {41, 37, 53, 45, 61, 57, 33, 49} -> and(c, opcode.mode)
      [] opc \in {10} -> asl_accumulator(c)
      [] opc \in {6, 22, 14, 30} -> asl(c, opcode.mode)
      [] opc \in {144} -> branch(c, ~contains(c.status, CARRY))
      [] opc \in {176} -> branch(c, contains(c.status, CARRY))
      [] opc \in {240} -> branch(c, contains(c.status, ZERO))
      [] opc \in {36, 44} -> bit(c, opcode.mode)
      [] opc \in {48} -> branch(c, contains(c.status, NEGATIVE))
      [] opc \in {208} -> branch(c, ~contains(c.status, ZERO))
      [] opc \in {16} -> branch(c, ~contains(c.status, NEGATIVE))
      [] opc \in {0} -> c
      [] opc \in {80} -> branch(c, ~contains(c.status, OVERFLOW))
      [] opc \in {112} -> branch(c, contains(c.status, OVERFLOW))
      [] opc \in {24} -> clc(c)
      [] opc \in {216} -> cld(c)
      [] opc \in {88} -> cli(c)
      [] opc \in {184} -> clv(c)
      [] opc \in {201, 197, 213, 205, 221, 217, 193, 209} -> compare(c, opcode.mode, c.register_a)
      [] opc \in {224, 228, 236} -> compare(c, opcode.mode, c.register_x)
      [] opc \in {192, 196, 204} -> compare(c, opcode.mode, c.register_y)
      [] opc \in {198, 214, 206, 222} -> dec(c, opcode.mode)
      [] opc \in {202} -> dex(c)
      [] opc \in {136} -> dey(c)
      [] opc \in {73, 69, 85, 77, 93, 89, 65, 81} -> eor(c, opcode.mode)
      [] opc \in {230, 246, 238, 254} -> inc(c, opcode.mode)
      [] opc \in {232} -> inx(c)
      [] opc \in {200} -> iny(c)
      [] opc \in {76} -> jmp_absolute(c)
      [] opc \in {108} -> jmp_indirect(c)
      [] opc \in {32} -> jsr(c)
      [] opc \in {169, 165, 181, 173, 189, 185, 161, 177} -> lda(c, opcode.mode)
      [] opc \in {162, 166, 182, 174, 190} -> ldx(c, opcode.mode)
      [] opc \in {160, 164, 180, 172, 188} -> ldy(c, opcode.mode)
      [] opc \in {74} -> lsr_accumulator(c)
      [] opc \in {70, 86, 78, 94} -> lsr(c, opcode.mode)
      [] opc \in {234} -> c
      [] opc \in {9, 5, 21, 13, 29, 25, 1, 17} -> ora(c, opcode.mode)
      [] opc \in {72} -> pha(c)
      [] opc \in {8} -> php(c)
      [] opc \in {104} -> pla(c)
      [] opc \in {40} -> plp(c)
      [] opc \in {42} -> rol_accumulator(c)
      [] opc \in {38, 54, 46, 62} -> rol(c, opcode.mode)
      [] opc \in {106} -> ror_accumulator(c)
      [] opc \in {102, 118, 110, 126} -> ror(c, opcode.mode)
      [] opc \in {64} -> rti(c)
      [] opc \in {96} -> rts(c)
      [] opc \in {233, 229, 245, 237, 253, 249, 225, 241} -> sbc(c, opcode.mode)
      [] opc \in {56} -> sec(c)
      [] opc \in {248} -> sed(c)
      [] opc \in {120} -> sei(c)
      [] opc \in {133, 149, 141, 157, 153, 129, 145} -> sta(c, opcode.mode)
      [] opc \in {134, 150, 142} -> stx(c, opcode.mode)
      [] opc \in {132, 148, 140} -> sty(c, opcode.mode)
      [] opc \in {170} -> tax(c)
      [] opc \in {168} -> tay(c)
      [] opc \in {186} -> tsx(c)
      [] opc \in {138} -> txa(c)
      [] opc \in {154} -> txs(c)
      [] opc \in {152} -> tya(c)
      [] OTHER -> Panic(c, "not yet implemented")

\* a bug: the NOP arm returns as well
arm_returns_nop(opc) == opc \in {0, 234}

\* the arm that returns from run
arm_returns(opc) == opc \in {0}

\* a bug: the loop adds len, the opcode byte counted twice
advance_len(c, program_counter_state, opcode) ==
    LET pc == add_u16(c.program_counter, opcode.len)
    IN  IF c.panic # "" THEN c
        ELSE IF program_counter_state = c.program_counter
        THEN OrPanic(c, pc, [c EXCEPT !.program_counter = pc])
        ELSE c

\* if program_counter_state == self.program_counter { += (opcode.len - 1) }
advance(c, program_counter_state, opcode) ==
    LET pc == add_u16(c.program_counter, opcode.len - 1)
    IN  IF c.panic # "" THEN c
        ELSE IF program_counter_state = c.program_counter
        THEN OrPanic(c, pc, [c EXCEPT !.program_counter = pc])
        ELSE c

\* a bug: the BRK arm sets I and pushes the status as the 6502 does
decode_execute_interrupting(c, opc) ==
    IF opc \notin DOMAIN OPCODES_MAP
    THEN [cpu |-> Panic(c, "OpCode " \o format_x(opc) \o " is not recognised"),
          returned |-> FALSE]
    ELSE IF arm_returns(opc) THEN [cpu |-> sei(php(c)), returned |-> TRUE]
    ELSE [cpu |-> advance(dispatch(c, opc, OPCODES_MAP[opc]), c.program_counter,
                          OPCODES_MAP[opc]),
          returned |-> FALSE]

\* the pass from the lookup on: c has the opcode byte opc behind its program counter
decode_execute(c, opc) ==
    IF opc \notin DOMAIN OPCODES_MAP
    THEN [cpu |-> Panic(c, "OpCode " \o format_x(opc) \o " is not recognised"),
          returned |-> FALSE]
    ELSE IF arm_returns(opc) THEN [cpu |-> c, returned |-> TRUE]
    ELSE [cpu |-> advance(dispatch(c, opc, OPCODES_MAP[opc]), c.program_counter,
                          OPCODES_MAP[opc]),
          returned |-> FALSE]

\* one pass of the loop once the callback has returned: the struct after the
\* pass and whether run returned in it
loop_body(c) ==
    IF mem_read(c, c.program_counter) < 0
    THEN [cpu |-> Panic(c, PanicMessage(mem_read(c, c.program_counter))),
          returned |-> FALSE]
    ELSE IF add_u16(c.program_counter, 1) < 0
    THEN [cpu |-> Panic(c, PanicMessage(add_u16(c.program_counter, 1))),
          returned |-> FALSE]
    ELSE decode_execute([c EXCEPT !.program_counter = add_u16(c.program_counter, 1)],
                        mem_read(c, c.program_counter))

-----------------------------------------------------------------------------
(* reset, load *)

\* a bug: the stack pointer is left where the program moved it
reset_keeps_stack(c) ==
    LET c1 == [c EXCEPT !.register_a = 0, !.register_x = 0, !.register_y = 0,
                        !.status = from_bits_truncate(36)]
        pc == mem_read_u16(c1, 65532)
    IN  OrPanic(c1, pc, [c1 EXCEPT !.program_counter = pc])

reset(c) ==
    LET c1 == [c EXCEPT !.register_a = 0, !.register_x = 0, !.register_y = 0,
                        !.status = from_bits_truncate(36)]
        pc == mem_read_u16(c1, 65532)
    IN  OrPanic(c1, pc, [c1 EXCEPT !.program_counter = pc,
                                   !.stack_pointer = STACK_RESET])

\* A program (Vec<u8>) is its leading bytes `head`, then `pad` zero bytes, then
\* its last bytes `tail`.
program_len(program) == Len(program.head) + program.pad + Len(program.tail)

\* program[i], counting from 0
program_at(program, i) ==
    IF i < Len(program.head) THEN program.head[i + 1]
    ELSE IF i < Len(program.head) + program.pad THEN 0
    ELSE program.tail[i - Len(program.head) - program.pad + 1]


\* a bug: the bytes outside the image are zeroed
copy_clearing(memory, program) ==
    LET at == {i - 1 : i \in DOMAIN program.head}
                \cup {Len(program.head) + program.pad + i - 1 : i \in DOMAIN program.tail}
    IN  [a \in {1536 + i : i \in {j \in at : program_at(program, j) # 0}}
            |-> program_at(program, a - 1536)]

\* self.memory[0x0600..(0x0600 + program.len())].copy_from_slice(&program[..])
copy_from_slice(memory, program) ==
    LET end == 1536 + program_len(program)
        kept == {a \in DOMAIN memory : a < 1536 \/ a >= end}
        at == {i - 1 : i \in DOMAIN program.head}
                \cup {Len(program.head) + program.pad + i - 1 : i \in DOMAIN program.tail}
        put == {1536 + i : i \in {j \in at : program_at(program, j) # 0}}
    IN  [a \in kept \cup put |->
            IF a \in put THEN program_at(program, a - 1536) ELSE memory[a]]

\* a bug: the reset vector is written before the image is copied
load_vector_first(c, program) ==
    IF 1536 + program_len(program) > MemLen
    THEN Panic(c, "range end index out of range for slice")
    ELSE [c EXCEPT !.memory =
            copy_from_slice(mem_write_u16(c, 65532, 1536).memory, program)]

load(c, program) ==
    IF 1536 + program_len(program) > MemLen
    THEN Panic(c, "range end index out of range for slice")
    ELSE mem_write_u16([c EXCEPT !.memory = copy_from_slice(c.memory, program)],
                       65532, 1536)

-----------------------------------------------------------------------------
(* The machine: a client that owns a CPU and calls its public interface *)

MaxSteps == 8
MaxCalls == 3

Image(bytes) == [head |-> bytes, pad |-> 0, tail |-> <<>>]

\* an image of len bytes that begins with head and ends with tail
LongImage(head, len, tail) ==
    [head |-> head, pad |-> len - Len(head) - Len(tail), tail |-> tail]

\* an operation of the client and the image it was given
Op(name, program) == [name |-> name, program |-> program]

\* The images of the tests of cpu.rs and of the scenarios of the specification,
\* and images that reach the jumps, the stack and an unrecognised opcode.
Programs == {
    Image(<<169, 5, 0>>),
    Image(<<169, 0, 0>>),
    Image(<<169, 255, 0>>),
    Image(<<165, 16, 0>>),
    Image(<<170, 0>>),
    Image(<<169, 192, 170, 232, 0>>),
    Image(<<232, 232, 0>>),
    Image(<<56, 169, 80, 105, 80, 0>>),
    Image(<<32, 5, 6, 0, 0, 232, 96>>),
    Image(<<>>),
    Image(<<0, 232>>),
    Image(<<234, 2>>),
    Image(<<76, 5, 6, 232, 0, 200, 0>>),
    Image(<<72, 8, 104, 40, 0>>),
    Image(<<162, 255, 72, 56, 0>>),
    LongImage(<<232, 0>>, 63998, <<52, 18>>),
    LongImage(<<169, 5, 0>>, 63999, <<52, 18, 119>>),
    LongImage(<<232, 0>>, 64000, <<52, 18, 119, 1>>)
}

PokeAddrs == {16}
PokeData == {85}
FieldValues == {10, 255}

AtRest == run \in {"idle", "returned"} /\ calls < MaxCalls

\* what a call that ran to its end, or panicked, leaves
AfterCall(c, name, program) ==
    /\ cpu' = c
    /\ run' = IF c.panic # "" THEN "panicked" ELSE "idle"
    /\ calls' = calls + 1
    /\ op' = Op(name, program)
    /\ UNCHANGED <<overflow_checks, code, prev, entry, steps, hook>>

\* The closure handed to run_with_callback and what it has captured: the
\* number of times it was invoked, and the invocation at which it writes $00
\* at the program counter (0: never, the closure |_| {} of run).
Hook(count, halt_at) == [count |-> count, halt_at |-> halt_at]

NoHook == Hook(0, 0)

\* run_with_callback is entered with the struct c and the closure h
EnterRunWith(c, name, program, h) ==
    /\ cpu' = c
    /\ run' = IF c.panic # "" THEN "panicked" ELSE "running"
    /\ entry' = c
    /\ calls' = calls + 1
    /\ op' = Op(name, program)
    /\ hook' = h
    /\ UNCHANGED <<overflow_checks, code, prev, steps>>

\* run is entered with the struct c
EnterRun(c, name, program) == EnterRunWith(c, name, program, NoHook)

MemWrite(addr, data) == AtRest /\ AfterCall(mem_write(cpu, addr, data), "mem_write", Image(<<>>))

SetRegisterA(v) == AtRest /\ AfterCall([cpu EXCEPT !.register_a = v], "register_a", Image(<<>>))

SetRegisterX(v) == AtRest /\ AfterCall([cpu EXCEPT !.register_x = v], "register_x", Image(<<>>))

Load(program) == AtRest /\ AfterCall(load(cpu, program), "load", program)

Reset == AtRest /\ AfterCall(reset(cpu), "reset", Image(<<>>))

Run == AtRest /\ EnterRun(cpu, "run", Image(<<>>))

load_and_run(c, program) ==
    LET loaded == load(c, program)
    IN  IF loaded.panic # "" THEN loaded ELSE reset(loaded)

LoadAndRun(program) == AtRest /\ EnterRun(load_and_run(cpu, program), "load_and_run", program)

\* the invocations at which a closure of the machine cancels the run
HaltAts == {1, 2}

RunWithCallback(halt_at) ==
    AtRest /\ EnterRunWith(cpu, "run_with_callback", Image(<<>>), Hook(0, halt_at))

\* run's callback: |_| {}
callback(c) == c

\* a callback that cancels the run: it writes $00 at the program counter
halting(c) == mem_write(c, c.program_counter, 0)

\* callback(self) with the closure h: the struct and the closure it leaves
invoke(c, h) ==
    [cpu |-> IF h.halt_at = h.count + 1 THEN halting(c) ELSE callback(c),
     hook |-> Hook(h.count + 1, h.halt_at)]

\* a bug: the callback is invoked after the fetch and the instruction
pass_fetch_first(c, h) ==
    [seen |-> c,
     out |-> [cpu |-> (IF loop_body(c).cpu.panic # "" THEN loop_body(c).cpu
                       ELSE invoke(loop_body(c).cpu, h).cpu),
              returned |-> loop_body(c).returned],
     hook |-> invoke(c, h).hook]

\* One pass of the loop with the closure h: the callback, then the fetch and
\* the arm on the struct the callback left.
pass(c, h) ==
    [seen |-> invoke(c, h).cpu,
     out |-> (IF invoke(c, h).cpu.panic # ""
              THEN [cpu |-> invoke(c, h).cpu, returned |-> FALSE]
              ELSE loop_body(invoke(c, h).cpu)),
     hook |-> invoke(c, h).hook]

\* One pass of the loop of run_with_callback: the callback, the fetch, the arm.
Step ==
    /\ run = "running"
    /\ steps < MaxSteps
    /\ \E p \in {pass(cpu, hook)} :
        /\ prev' = p.seen
        /\ code' = mem_read(p.seen, p.seen.program_counter)
        /\ cpu' = p.out.cpu
        /\ run' = IF p.out.cpu.panic # "" THEN "panicked"
                  ELSE IF p.out.returned THEN "returned"
                  ELSE "running"
        /\ hook' = p.hook
    /\ steps' = steps + 1
    /\ op' = Op("step", Image(<<>>))
    /\ UNCHANGED <<overflow_checks, entry, calls>>

Init ==
    /\ cpu = new
    /\ run = "idle"
    /\ overflow_checks \in BOOLEAN
    /\ code = -1
    /\ prev = new
    /\ entry = new
    /\ steps = 0
    /\ calls = 0
    /\ op = Op("new", Image(<<>>))
    /\ hook = NoHook

Next ==
    \/ \E addr \in PokeAddrs, data \in PokeData : MemWrite(addr, data)
    \/ \E v \in FieldValues : SetRegisterA(v)
    \/ \E v \in FieldValues : SetRegisterX(v)
    \/ \E program \in Programs : Load(program)
    \/ Reset
    \/ Run
    \/ \E halt_at \in HaltAts : RunWithCallback(halt_at)
    \/ \E program \in Programs : LoadAndRun(program)
    \/ Step

Spec == Init /\ [][Next]_vars

-----------------------------------------------------------------------------
(* The client of the memory interface (pub trait Mem): byte and 16-bit     *)
(* writes at addresses next to each other and at the end of the address    *)
(* space.                                                                  *)

MemAddrs == {16, 17, 65534, 65535}
MemData == {0, 85}
MemWords == {1536, 43981}

MemWriteU16(pos, data) ==
    AtRest /\ AfterCall(mem_write_u16(cpu, pos, data), "mem_write_u16", Image(<<>>))

NextMem ==
    \/ \E addr \in MemAddrs, data \in MemData : MemWrite(addr, data)
    \/ \E pos \in MemAddrs, data \in MemWords : MemWriteU16(pos, data)

SpecMem == Init /\ [][NextMem]_vars

-----------------------------------------------------------------------------
(* Run entered on a struct the client prepared: the fields of CPU are pub  *)
(* and the tests of cpu.rs assign them before run(), and mem_write is      *)
(* public.  Machine(..) is such a struct; the specifications below enter   *)
(* run on every struct of a set and take the loop's passes.                *)

Machine(a, x, y, p, s, pc, mem) ==
    [register_a |-> a, register_x |-> x, register_y |-> y, status |-> p,
     program_counter |-> pc, stack_pointer |-> s, memory |-> mem, panic |-> ""]

\* the bytes `bytes` from address addr on
At(addr, bytes) == [a \in addr .. (addr + Len(bytes) - 1) |-> bytes[a - addr + 1]]

\* the memory array that holds f's bytes and zero elsewhere
Memory(f) == [a \in {b \in DOMAIN f : b < MemLen /\ f[b] # 0} |-> f[a]]

EnteredWith(c, checks, h) ==
    /\ cpu = c
    /\ run = "running"
    /\ overflow_checks = checks
    /\ code = -1
    /\ prev = c
    /\ entry = c
    /\ steps = 0
    /\ calls = 0
    /\ op = Op(IF h = NoHook THEN "run" ELSE "run_with_callback", Image(<<>>))
    /\ hook = h

EnteredIn(c, checks) == EnteredWith(c, checks, NoHook)

Entered(c) == \E checks \in BOOLEAN : EnteredIn(c, checks)

\* a struct with the bytes `bytes` at pc, PC there, and `data` elsewhere
ProgAt(pc, bytes, a, x, y, p, s, data) ==
    Machine(a, x, y, p, s, pc, Memory(At(pc, bytes) @@ data))

\* the same at $0600, where load puts an image
Prog(bytes, a, x, y, p, s, data) == ProgAt(1536, bytes, a, x, y, p, s, data)

Lo(v) == v % U8
Hi(v) == v \div U8

\* I and U set; the same with D, V, Z, N set; each with C clear and set
Flags == {36, 37, 238, 239}

\* Every opcode byte with two operand bytes behind it, with no flag set and
\* with every flag set, at the reset stack pointer.
OperandPairs == {<<5, 6>>, <<255, 2>>, <<0, 0>>, <<254, 255>>}

EveryOpcode ==
    \E opc \in Byte, pair \in OperandPairs, p \in {36, 231} :
        Entered(Prog(<<opc, pair[1], pair[2]>>, 128, 1, 2, p, STACK_RESET,
                     At(6, <<7, 9, 11>>)))

\* PHA; PLA and PHP; PLP at every stack pointer, the slot holding another
\* byte beforehand; PHP; PLP also over every P.
StackSweep ==
    \/ \E s \in Byte, a \in {0, 85, 128, 255}, p \in Flags :
        Entered(Prog(<<72, 104>>, a, 2, 3, p, s, At(STACK + s, <<(a + 1) % U8>>)))
    \/ \E s \in {0, 255}, a \in Byte :
        Entered(Prog(<<72, 104>>, a, 2, 3, 36, s, At(STACK + s, <<(a + 1) % U8>>)))
    \/ \E s \in Byte, p \in {0, 16, 36, 52, 203, 255} :
        Entered(Prog(<<8, 40>>, 1, 2, 3, p, s, At(STACK + s, <<(p + 1) % U8>>)))
    \/ \E s \in {0, 1, 253, 255}, p \in Byte :
        Entered(Prog(<<8, 40>>, 1, 2, 3, p, s, At(STACK + s, <<(p + 1) % U8>>)))

\* PLP alone, over every byte on top of the stack
PullSweep ==
    \/ \E s \in {0, 252, 254, 255}, b \in Byte, p \in {36, 255} :
        Entered(Prog(<<40>>, 1, 2, 3, p, s, At(STACK + ((s + 1) % U8), <<b>>)))
    \/ \E s \in Byte, b \in {0, 16, 32, 207, 255} :
        Entered(Prog(<<40>>, 1, 2, 3, 36, s, At(STACK + ((s + 1) % U8), <<b>>)))

\* the bodies of a subroutine: RTS; INX, RTS; PHA, PLA, RTS; PHA, RTS
Bodies == {<<96>>, <<232, 96>>, <<72, 104, 96>>, <<72, 96>>}

\* JSR at pc, at every stack pointer, to a subroutine elsewhere or right
\* behind it, and JSR to the address of its own operand.
CallSweep ==
    \/ \E s \in Byte, pc \in {1536, 766, 253, 65278, 65520}, t \in {1792, 0},
          body \in Bodies :
        Entered(ProgAt(pc, <<32, Lo(IF t = 0 THEN pc + 3 ELSE t),
                             Hi(IF t = 0 THEN pc + 3 ELSE t)>>,
                       1, 2, 3, 36, s,
                       At(IF t = 0 THEN pc + 3 ELSE t, body)
                        @@ At(STACK + s, <<238>>)
                        @@ At(STACK + ((s + 255) % U8), <<238>>)))
    \/ \E s \in {0, 1, 253, 255}, pc \in {1536, 766} :
        Entered(ProgAt(pc, <<32, Lo(pc + 1), Hi(pc + 1)>>, 1, 2, 3, 36, s, <<>>))

\* JMP (p) for pointers p in the middle, at the end and at the start of a
\* page, and at the end of memory.
Pointers == {767, 768, 766, 4351, 255, 16, 65279, 65534, 65535}

JumpSweep ==
    \E p \in Pointers :
        Entered(Prog(<<108, Lo(p), Hi(p)>>, 1, 2, 3, 36, STACK_RESET,
                     At(p, <<52, 86>>) @@ At(p - Lo(p), <<18>>) @@ At(255, <<7>>)))

\* Instructions at the end of the address space: RTS with $FFFF on the
\* stack, a load and a store at $FFFF, and instructions in the last bytes.
EdgeSweep ==
    \/ Entered(Prog(<<96>>, 1, 2, 3, 36, STACK_RESET, At(STACK + 254, <<255, 255>>)))
    \/ \E opc \in {173, 141, 76} : Entered(Prog(<<opc, 255, 255>>, 1, 2, 3, 36, STACK_RESET, <<>>))
    \/ \E pc \in {65532, 65533, 65534, 65535}, bytes \in {<<232>>, <<169, 1>>, <<173, 16, 0>>} :
        Entered(ProgAt(pc, bytes, 1, 2, 3, 36, STACK_RESET, At(16, <<85>>)))

\* run_with_callback with a closure that cancels at its k-th invocation, on a
\* program that stops by itself and on loops that do not
Loops == {<<232, 232, 232, 0>>, <<76, 0, 6>>, <<232, 208, 253>>, <<0>>}

CancelSweep ==
    \E bytes \in Loops, k \in 1 .. 5, checks \in BOOLEAN :
        EnteredWith(Prog(bytes, 1, 2, 3, 36, STACK_RESET, <<>>), checks, Hook(0, k))

\* the eight branches with every displacement, their flag clear and set,
\* in the middle, at the start and at the end of the address space
BranchSweep ==
    \E opc \in {16, 48, 80, 112, 144, 176, 208, 240}, d \in Byte, p \in {36, 231},
       pc \in {1536, 0, 65533} :
        Entered(ProgAt(pc, <<opc, d>>, 1, 2, 3, p, STACK_RESET, <<>>))

\* JMP, JMP (p) and JSR at pc to the instruction itself, to each of its
\* operand bytes, behind it and elsewhere
TargetSweep ==
    \E opc \in {76, 108, 32}, pc \in {1536, 766}, t \in {0, 1, 2, 3, 1000} :
        Entered(ProgAt(pc, IF opc = 108 THEN <<108, 0, 16>>
                           ELSE <<opc, Lo(pc + t), Hi(pc + t)>>,
                       1, 2, 3, 36, STACK_RESET, At(4096, <<Lo(pc + t), Hi(pc + t)>>)))

\* RTI at every stack pointer, the three bytes it pops holding a status b
\* and a return address t
RtiSweep ==
    \E s \in Byte, b \in {0, 16, 32, 207, 255}, t \in {4660, 1536, 1537, 65535, 0} :
        Entered(Prog(<<64>>, 1, 2, 3, 36, s,
                     At(STACK + ((s + 1) % U8), <<b>>)
                        @@ At(STACK + ((s + 2) % U8), <<Lo(t)>>)
                        @@ At(STACK + ((s + 3) % U8), <<Hi(t)>>)))

\* STA, STX and STY in every mode, the stored register holding every value
\* and the other two holding 3, over memory that holds other bytes
Stores == {133, 149, 141, 157, 153, 129, 145, 134, 150, 142, 132, 148, 140}

StoreSweep ==
    \E opc \in Stores, v \in Byte, p \in {36, 239} :
        Entered(Prog(<<opc, 16, 2>>,
                     IF opc \in {134, 150, 142, 132, 148, 140} THEN 3 ELSE v,
                     IF opc \in {134, 150, 142} THEN v ELSE 3,
                     IF opc \in {132, 148, 140} THEN v ELSE 3,
                     p, STACK_RESET, At(16, <<32, 3, 0, 64, 3>>) @@ At(528, <<77>>)))

InitStep ==
    \/ EveryOpcode \/ StackSweep \/ PullSweep \/ CallSweep \/ JumpSweep \/ EdgeSweep
    \/ CancelSweep \/ BranchSweep \/ TargetSweep \/ RtiSweep \/ StoreSweep

SpecStep == InitStep /\ [][Step]_vars

\* Every instruction that sets Z and N from a result, over every result byte.
ResultSweep ==
    \/ \E opc \in {169, 162, 160}, v \in Byte, p \in Flags :
        Entered(Prog(<<opc, v>>, 1, 2, 3, p, STACK_RESET, <<>>))
    \/ \E opc \in {170, 168, 186, 138, 152, 232, 200, 202, 136}, v \in Byte,
          p \in Flags :
        Entered(Prog(<<opc>>, v, v, v, p, v, <<>>))
    \/ \E v \in Byte, p \in Flags :
        Entered(Prog(<<104>>, 1, 2, 3, p, 252, At(509, <<v>>)))
    \/ \E opc \in {41, 9, 73, 105, 233}, v \in Byte, a \in {0, 15, 127, 255},
          p \in Flags :
        Entered(Prog(<<opc, v>>, a, 2, 3, p, STACK_RESET, <<>>))
    \/ \E opc \in {10, 74, 42, 106}, v \in Byte, p \in Flags :
        Entered(Prog(<<opc>>, v, 2, 3, p, STACK_RESET, <<>>))
    \/ \E opc \in {6, 70, 38, 102, 230, 198}, v \in Byte, p \in Flags :
        Entered(Prog(<<opc, 16>>, 1, 2, 3, p, STACK_RESET, At(16, <<v>>)))

\* INX; INX from every X
IncrementSweep ==
    \E x \in Byte, p \in Flags :
        Entered(Prog(<<232, 232>>, 1, x, 3, p, STACK_RESET, <<>>))

\* TAX, TAY, TSX, TXA, TXS and TYA from every value, the four registers
\* holding four different values
TransferSweep ==
    \E opc \in {170, 168, 186, 138, 154, 152}, v \in Byte, p \in Flags :
        Entered(Prog(<<opc>>, v, (v + 85) % U8, (v + 170) % U8, p, (v + 51) % U8, <<>>))

\* ROL then ROR, and ROR then ROL, on the accumulator, on a zero-page byte and
\* on a byte at absolute,X, from every value with C clear and set
RotatePairs == {<<42, 106>>, <<106, 42>>,
                <<38, 16, 102, 16>>, <<102, 16, 38, 16>>,
                <<62, 0, 3, 126, 0, 3>>, <<126, 0, 3, 62, 0, 3>>}

RotateSweep ==
    \E pair \in RotatePairs, v \in Byte, p \in Flags :
        Entered(Prog(pair, IF Len(pair) = 2 THEN v ELSE (v + 85) % U8, 4, 3, p,
                     STACK_RESET,
                     IF Len(pair) = 2 THEN <<>>
                     ELSE IF Len(pair) = 4 THEN At(16, <<v>>)
                     ELSE At(772, <<v>>)))

InitResult ==
    ResultSweep \/ EveryOpcode \/ IncrementSweep \/ TransferSweep \/ RotateSweep

SpecResult == InitResult /\ [][Step]_vars

\* ADC #m; SEC; SBC #m with either carry, and SBC #m with the carry clear,
\* over every A and every m, with V set on entry.  No sum of these programs
\* leaves its width, so the build without overflow checks is entered on a
\* few values of A only.
SampleA == {0, 1, 127, 128, 255}

ArithmeticSweep ==
    \/ \E a \in Byte, m \in Byte, p \in {100, 101}, checks \in BOOLEAN :
        /\ checks \/ a \in SampleA
        /\ EnteredIn(Prog(<<105, m, 56, 233, m>>, a, 2, 3, p, STACK_RESET, <<>>),
                     checks)
    \/ \E a \in Byte, m \in Byte, checks \in BOOLEAN :
        /\ checks \/ a \in SampleA
        /\ EnteredIn(Prog(<<233, m>>, a, 2, 3, 100, STACK_RESET, <<>>), checks)

\* SED; ADC #m; SBC #m; CLD on a sample of A, over every m and the flags
\* clear and set
DecimalSweep ==
    \E a \in SampleA, m \in Byte, p \in Flags :
        Entered(Prog(<<248, 105, m, 233, m, 216>>, a, 2, 3, p, STACK_RESET, <<>>))

InitArith == ArithmeticSweep \/ EveryOpcode \/ DecimalSweep

SpecArith == InitArith /\ [][Step]_vars

\* CMP #m, CPX #m and CPY #m over every register value and every m, with
\* C, Z, V, N all clear and all set on entry; A, X and Y differ.
CompareSweep ==
    \E opc \in {201, 224, 192}, r \in Byte, m \in Byte, p \in {36, 231},
       checks \in BOOLEAN :
        /\ checks \/ r \in SampleA
        /\ EnteredIn(Prog(<<opc, m>>,
                          IF opc = 201 THEN r ELSE (r + 85) % U8,
                          IF opc = 224 THEN r ELSE (r + 86) % U8,
                          IF opc = 192 THEN r ELSE (r + 87) % U8,
                          p, STACK_RESET, <<>>), checks)

InitCompare == CompareSweep \/ EveryOpcode

SpecCompare == InitCompare /\ [][Step]_vars

\* BIT zero page over every A and every m, and BIT absolute over every m,
\* with C, Z, D, V, N all clear and all set on entry
BitSweep ==
    \/ \E a \in Byte, m \in Byte, p \in {36, 239}, checks \in BOOLEAN :
        /\ checks \/ a \in SampleA
        /\ EnteredIn(Prog(<<36, 16>>, a, 2, 3, p, STACK_RESET, At(16, <<m>>)), checks)
    \/ \E a \in SampleA, m \in Byte, p \in {36, 239} :
        Entered(Prog(<<44, 52, 18>>, a, 2, 3, p, STACK_RESET, At(4660, <<m>>)))

InitBit == BitSweep \/ EveryOpcode

SpecBit == InitBit /\ [][Step]_vars

\* the words an Absolute,X/Y operand holds, and the word an (Indirect),Y
\* pointer holds
Bases == {255, 4660, 65535, 65408, 0}
PointerBases == {65520}

\* Loads in the indexed and indirect modes, over every operand byte b and
\* every index i: the byte $5A lies at the address the mode names, and the
\* register that is not the index holds another value.
ModeSweep ==
    \/ \E b \in Byte, i \in Byte, checks \in BOOLEAN, PointerBase \in PointerBases :
        /\ checks \/ i \in SampleA
        /\ \/ EnteredIn(Prog(<<181, b>>, 1, i, (i + 77) % U8, 36, STACK_RESET,
                             At((b + i) % U8, <<90>>)), checks)
           \/ EnteredIn(Prog(<<182, b>>, 1, (i + 77) % U8, i, 36, STACK_RESET,
                             At((b + i) % U8, <<90>>)), checks)
           \/ EnteredIn(Prog(<<161, b>>, 1, i, (i + 77) % U8, 36, STACK_RESET,
                             At((b + i) % U8, <<52>>) @@ At((b + i + 1) % U8, <<18>>)
                                @@ At(4660, <<90>>)), checks)
           \/ EnteredIn(Prog(<<177, b>>, 1, (i + 77) % U8, i, 36, STACK_RESET,
                             At(b, <<Lo(PointerBase)>>) @@ At((b + 1) % U8, <<Hi(PointerBase)>>)
                                @@ At((PointerBase + i) % U16, <<90>>)), checks)
    \/ \E base \in Bases, i \in Byte :
        \/ Entered(Prog(<<189, Lo(base), Hi(base)>>, 1, i, (i + 77) % U8, 36,
                        STACK_RESET, At((base + i) % U16, <<90>>)))
        \/ Entered(Prog(<<185, Lo(base), Hi(base)>>, 1, (i + 77) % U8, i, 36,
                        STACK_RESET, At((base + i) % U16, <<90>>)))

SpecMode == ModeSweep /\ [][Step]_vars

-----------------------------------------------------------------------------
(* What the last pass of the loop did *)

\* the last pass fetched one of opcodes and ran to its end
Executed(opcodes) == steps > 0 /\ code \in opcodes /\ cpu.panic = ""

\* the struct the arm of the last pass started from: the fetch has advanced PC
Fetched == [prev EXCEPT !.program_counter = (prev.program_counter + 1) % U16]

Flag(c, flag) == IF contains(c.status, flag) THEN 1 ELSE 0

Recognised == {CPU_OPCODES[i].code : i \in DOMAIN CPU_OPCODES}

-----------------------------------------------------------------------------
(* C1: run returns at a fetch exactly when the fetched opcode byte is $00  *)
(* (BRK): a fetch of $00 returns, and a pass that fetched any other        *)
(* recognised opcode and ran to its end goes on to the next fetch.         *)

C1_ReturnsExactlyOnBrk ==
    /\ run = "returned" => code = 0
    /\ (steps > 0 /\ code = 0) => run = "returned"
    /\ Executed(Recognised \ {0}) => run = "running"

\* run has returned on a BRK that followed an executed instruction
C1_Witness == run = "returned" /\ code = 0 /\ steps = 2 /\ prev.register_x = 2

-----------------------------------------------------------------------------
(* C2: a load that completes leaves $00, $06 at $FFFC, $FFFD whatever the  *)
(* image holds; a reset that follows it leaves PC = $0600; load_and_run    *)
(* leaves what load and then reset leave and enters run, and the first     *)
(* fetch of that run reads the first byte of the image.                    *)

AfterLoadReset(loaded) == IF loaded.panic # "" THEN loaded ELSE reset(loaded)

C2_LoadResetRun ==
    [][/\ (op'.name = "load" /\ cpu'.panic = "")
            => /\ MemByte(cpu'.memory, 65532) = 0
               /\ MemByte(cpu'.memory, 65533) = 6
       /\ (op.name = "load" /\ cpu.panic = "" /\ op'.name = "reset")
            => cpu'.program_counter = 1536 /\ cpu'.panic = ""
       /\ op'.name = "load_and_run"
            => /\ cpu' = AfterLoadReset(load(cpu, op'.program))
               /\ entry' = cpu'
               /\ cpu'.panic = "" => run' = "running" /\ cpu'.program_counter = 1536
       /\ (op.name = "load_and_run" /\ op'.name = "step"
                /\ program_len(op.program) > 0)
            => code' = program_at(op.program, 0)]_vars

\* a reset right after the load of an image that reaches over the reset vector
C2_Witness ==
    /\ op.name = "reset"
    /\ calls = 2
    /\ cpu.program_counter = 1536
    /\ MemByte(cpu.memory, 65534) = 119

-----------------------------------------------------------------------------
(* C3: after every instruction that produces an 8-bit result (loads,       *)
(* transfers but TXS, PLA, AND/ORA/EOR, ADC/SBC, the shifts and rotates,   *)
(* INC/DEC and INX/INY/DEX/DEY) Z is set exactly when the result is 0 and  *)
(* N equals bit 7 of the result, for every result 0..255; of the other     *)
(* bits of P only C (shifts, rotates, ADC, SBC) and V (ADC, SBC) change.   *)

ToX == {"LDX", "TAX", "TSX", "INX", "DEX"}
ToY == {"LDY", "TAY", "INY", "DEY"}
ToA == {"LDA", "TXA", "TYA", "PLA", "AND", "ORA", "EOR", "ADC", "SBC"}
Shifts == {"ASL", "LSR", "ROL", "ROR"}
ToMemory == {"INC", "DEC"}

Mnemonics(names) ==
    {CPU_OPCODES[i].code : i \in {j \in DOMAIN CPU_OPCODES : CPU_OPCODES[j].mnemonic \in names}}

\* the address the last instruction resolved
LastAddress == get_operand_address(Fetched, OPCODES_MAP[code].mode)

\* the result the last instruction produced, where it was stored
LastResult ==
    IF OPCODES_MAP[code].mnemonic \in ToX THEN cpu.register_x
    ELSE IF OPCODES_MAP[code].mnemonic \in ToY THEN cpu.register_y
    ELSE IF OPCODES_MAP[code].mnemonic \in ToA THEN cpu.register_a
    ELSE IF OPCODES_MAP[code].mode = "NoneAddressing" THEN cpu.register_a
    ELSE MemByte(cpu.memory, LastAddress)

\* the bits of P the last instruction may change besides Z and N
MayChange ==
    IF OPCODES_MAP[code].mnemonic \in Shifts THEN CARRY
    ELSE IF OPCODES_MAP[code].mnemonic \in {"ADC", "SBC"} THEN CARRY + OVERFLOW
    ELSE 0

Masked(p, bits) == BitAnd(p, 255 - bits)

C3_ZeroNegativeFromResult ==
    Executed(Mnemonics(ToX \cup ToY \cup ToA \cup Shifts \cup ToMemory))
        => /\ contains(cpu.status, ZERO) <=> (LastResult = 0)
           /\ contains(cpu.status, NEGATIVE) <=> (LastResult >= 128)
           /\ Masked(cpu.status, ZERO + NEGATIVE + MayChange)
                = Masked(prev.status, ZERO + NEGATIVE + MayChange)

\* INC of $FF in memory wrapped to 0 and set Z, cleared N, kept C, V and D
C3_Witness ==
    /\ Executed({230})
    /\ LastResult = 0
    /\ prev.status = 239
    /\ cpu.status = 111

-----------------------------------------------------------------------------
\* the byte the last instruction read at the address it resolved
LastOperand == mem_read(Fetched, LastAddress)

Signed(b) == IF b >= 128 THEN b - 256 ELSE b

(* C4: after ADC, A before + operand + carry before = A after + 256 if the *)
(* carry is set after, + 0 if it is clear.                                 *)

C4_AdcSum ==
    Executed(Mnemonics({"ADC"}))
        => prev.register_a + LastOperand + Flag(prev, CARRY)
            = cpu.register_a + 256 * Flag(cpu, CARRY)

\* $FF + $FF + 1 = $FF and a carry
C4_Witness ==
    /\ Executed({105})
    /\ prev.register_a = 255
    /\ LastOperand = 255
    /\ Flag(prev, CARRY) = 1
    /\ cpu.register_a = 255
    /\ Flag(cpu, CARRY) = 1

(* C5: after ADC with A = a, operand m and carry c, V is set exactly when  *)
(* signed8(a) + signed8(m) + c is outside -128..127 and C is bit 8 of      *)
(* a + m + c; after SBC the same holds with m complemented: V exactly when *)
(* signed8(a) - signed8(m) - (1 - c) is outside -128..127, C bit 8 of      *)
(* a + (255 - m) + c.                                                      *)

InSigned8(v) == -128 <= v /\ v <= 127

C5_OverflowAndCarry ==
    /\ Executed(Mnemonics({"ADC"}))
        => /\ contains(cpu.status, OVERFLOW)
                <=> ~InSigned8(Signed(prev.register_a) + Signed(LastOperand)
                                + Flag(prev, CARRY))
           /\ contains(cpu.status, CARRY)
                <=> prev.register_a + LastOperand + Flag(prev, CARRY) >= 256
    /\ Executed(Mnemonics({"SBC"}))
        => /\ contains(cpu.status, OVERFLOW)
                <=> ~InSigned8(Signed(prev.register_a) - Signed(LastOperand)
                                - (1 - Flag(prev, CARRY)))
           /\ contains(cpu.status, CARRY)
                <=> prev.register_a + (255 - LastOperand) + Flag(prev, CARRY) >= 256

\* $80 - $01 with a borrow pending overflows to $7E and sets C
C5_Witness ==
    /\ Executed({233})
    /\ prev.register_a = 128
    /\ LastOperand = 1
    /\ Flag(prev, CARRY) = 0
    /\ contains(cpu.status, OVERFLOW)
    /\ contains(cpu.status, CARRY)
    /\ cpu.register_a = 126

\* run was entered at ADC #m; SEC; SBC #m and the SBC has just executed
AdcSecSbcDone ==
    /\ Executed({233})
    /\ steps = 3
    /\ \A i \in 1 .. 5 :
        MemByte(entry.memory, entry.program_counter + i - 1)
            = <<105, MemByte(entry.memory, entry.program_counter + 1), 56, 233,
                MemByte(entry.memory, entry.program_counter + 1)>>[i]

(* C6 as stated: for all A and m and either carry before the ADC, ADC m,   *)
(* SEC, SBC m leaves A as it was before the ADC.                           *)

C6_RestoresA_AnyCarry == AdcSecSbcDone => cpu.register_a = entry.register_a

(* C6, amended: ADC m, SEC, SBC m leaves A as it was before the ADC when   *)
(* the carry was clear before the ADC, and one more (mod 256) when it was  *)
(* set: the ADC adds the carry in and the SBC does not take it out.        *)

C6_RestoresA_PlusCarry ==
    AdcSecSbcDone
        => cpu.register_a = (entry.register_a + Flag(entry, CARRY)) % 256

\* the ADC overflowed past $FF with the carry clear, and the SBC came back
C6_Witness ==
    /\ AdcSecSbcDone
    /\ Flag(entry, CARRY) = 0
    /\ entry.register_a = 200
    /\ MemByte(entry.memory, 1537) = 100
    /\ cpu.register_a = 200

-----------------------------------------------------------------------------
(* C7: after CMP, CPX, CPY of register value r with operand m: C is set    *)
(* exactly when m <= r, Z exactly when r = m, N is bit 7 of (r - m) mod    *)
(* 256; A, X, Y, S, V, the other bits of P and all memory are unchanged.   *)

\* the register the last compare instruction compared
Compared ==
    IF OPCODES_MAP[code].mnemonic = "CPX" THEN prev.register_x
    ELSE IF OPCODES_MAP[code].mnemonic = "CPY" THEN prev.register_y
    ELSE prev.register_a

C7_Compare ==
    Executed(Mnemonics({"CMP", "CPX", "CPY"}))
        => /\ contains(cpu.status, CARRY) <=> (LastOperand <= Compared)
           /\ contains(cpu.status, ZERO) <=> (Compared = LastOperand)
           /\ contains(cpu.status, NEGATIVE)
                <=> ((Compared - LastOperand) % 256 >= 128)
           /\ Masked(cpu.status, CARRY + ZERO + NEGATIVE)
                = Masked(prev.status, CARRY + ZERO + NEGATIVE)
           /\ cpu.register_a = prev.register_a
           /\ cpu.register_x = prev.register_x
           /\ cpu.register_y = prev.register_y
           /\ cpu.stack_pointer = prev.stack_pointer
           /\ cpu.memory = prev.memory

\* CPY of $10 with $20: C and Z cleared, N set from $F0, V kept
C7_Witness ==
    /\ Executed({192})
    /\ prev.register_y = 16
    /\ LastOperand = 32
    /\ prev.status = 231
    /\ cpu.status = 228

-----------------------------------------------------------------------------
(* C8: a JSR at address a pushes a + 2, high byte at $0100+S and low byte  *)
(* at $0100+S-1, lowers S by 2 and sets PC to its 16-bit operand; an RTS   *)
(* executed later at that stack depth, the pushed bytes still there, sets  *)
(* PC to a + 3 and S to its value before the JSR.                          *)

JsrPushes ==
    Executed({32})
        => /\ MemByte(cpu.memory, STACK + prev.stack_pointer)
                = Hi(prev.program_counter + 2)
           /\ MemByte(cpu.memory, STACK + ((prev.stack_pointer + 255) % U8))
                = Lo(prev.program_counter + 2)
           /\ cpu.stack_pointer = (prev.stack_pointer + 254) % U8

\* the operand of the JSR or JMP the last pass executed, as memory holds it
LastWord ==
    MemByte(cpu.memory, prev.program_counter + 1)
        + U8 * MemByte(cpu.memory, prev.program_counter + 2)

JsrJumps == Executed({32}) => cpu.program_counter = LastWord

\* run was entered at a JSR, and the last pass executed an RTS at the depth
\* that JSR left, its return address still on the stack
RtsAtDepth ==
    /\ Executed({96})
    /\ steps >= 2
    /\ MemByte(entry.memory, entry.program_counter) = 32
    /\ prev.stack_pointer = (entry.stack_pointer + 254) % U8
    /\ MemByte(prev.memory, STACK + entry.stack_pointer)
        = Hi(entry.program_counter + 2)
    /\ MemByte(prev.memory, STACK + ((entry.stack_pointer + 255) % U8))
        = Lo(entry.program_counter + 2)

RtsReturns ==
    RtsAtDepth
        => /\ cpu.program_counter = (entry.program_counter + 3) % U16
           /\ cpu.stack_pointer = entry.stack_pointer

C8_JsrRts == JsrPushes /\ JsrJumps /\ RtsReturns

-----------------------------------------------------------------------------
(* C9: at every stack pointer S, $00 and $FF included, a push followed by  *)
(* a pop gives back the pushed value and leaves S as it was: PHA; PLA      *)
(* gives A back, PHP; PLP pops the byte PHP pushed (P with bits 4 and 5    *)
(* set) so that P is as before but for bit 4 clear and bit 5 set, and the  *)
(* 16-bit push of JSR followed by the 16-bit pop of RTS gives back the     *)
(* pushed address.                                                         *)

\* run was entered at the bytes `bytes`, and their second instruction has
\* just executed
PairDone(bytes) ==
    /\ steps = 2
    /\ cpu.panic = ""
    /\ \A i \in DOMAIN bytes :
        MemByte(entry.memory, entry.program_counter + i - 1) = bytes[i]

C9_PushPopRoundTrip ==
    /\ PairDone(<<72, 104>>)
        => /\ cpu.register_a = entry.register_a
           /\ cpu.stack_pointer = entry.stack_pointer
    /\ PairDone(<<8, 40>>)
        => /\ MemByte(cpu.memory, STACK + entry.stack_pointer)
                = BitOr(entry.status, BREAK + BREAK2)
           /\ cpu.status
                = insert(remove(MemByte(cpu.memory, STACK + entry.stack_pointer),
                                BREAK), BREAK2)
           /\ Masked(cpu.status, BREAK + BREAK2)
                = Masked(entry.status, BREAK + BREAK2)
           /\ (contains(entry.status, BREAK2) /\ ~contains(entry.status, BREAK))
                => cpu.status = entry.status
           /\ cpu.stack_pointer = entry.stack_pointer
    /\ (RtsAtDepth /\ steps = 2)
        => /\ cpu.program_counter = Hi(entry.program_counter + 2) * U8
                                     + Lo(entry.program_counter + 2) + 1
           /\ cpu.stack_pointer = entry.stack_pointer

\* PHA; PLA at S = $00: the push wrapped S to $FF, the pop brought it back
C9_Witness ==
    /\ PairDone(<<72, 104>>)
    /\ entry.stack_pointer = 0
    /\ prev.stack_pointer = 255
    /\ cpu.stack_pointer = 0
    /\ cpu.register_a = 85

\* JSR; RTS at S = $00: the two pushes wrapped S to $FE, the pops brought it back
C9_Witness16 ==
    /\ RtsAtDepth
    /\ steps = 2
    /\ entry.stack_pointer = 0
    /\ prev.stack_pointer = 254
    /\ cpu.stack_pointer = 0

-----------------------------------------------------------------------------
(* C10: JMP indirect with pointer p = the 16-bit operand: when the low     *)
(* byte of p is $FF the new PC has its low byte from p and its high byte   *)
(* from p & $FF00; otherwise the new PC is the 16-bit word at p.           *)

C10_JmpIndirectPageWrap ==
    Executed({108})
        => cpu.program_counter
            = IF Lo(LastWord) = 255
              THEN MemByte(prev.memory, LastWord)
                    + U8 * MemByte(prev.memory, LastWord - 255)
              ELSE MemByte(prev.memory, LastWord)
                    + U8 * MemByte(prev.memory, LastWord + 1)

-----------------------------------------------------------------------------
(* C11: for every P, PHP writes P with bits 4 and 5 set at $0100+S, lowers *)
(* S by 1 (mod 256) and leaves P, the other registers and the rest of      *)
(* memory as they were.                                                    *)

\* memory after the last pass differs from memory before it at most at addrs
MemoryKeptBut(addrs) ==
    \A b \in (DOMAIN cpu.memory \cup DOMAIN prev.memory) \ addrs :
        MemByte(cpu.memory, b) = MemByte(prev.memory, b)

C11_PhpPushesWithBreakBits ==
    Executed({8})
        => /\ MemByte(cpu.memory, STACK + prev.stack_pointer)
                = BitOr(prev.status, BREAK + BREAK2)
           /\ cpu.stack_pointer = (prev.stack_pointer + 255) % U8
           /\ cpu.status = prev.status
           /\ cpu.register_a = prev.register_a
           /\ cpu.register_x = prev.register_x
           /\ cpu.register_y = prev.register_y
           /\ MemoryKeptBut({STACK + prev.stack_pointer})

\* P = $CB, bits 4 and 5 clear, was pushed as $FB at S = $00
C11_Witness ==
    /\ Executed({8})
    /\ prev.status = 203
    /\ prev.stack_pointer = 0
    /\ MemByte(cpu.memory, STACK) = 251
    /\ cpu.stack_pointer = 255
    /\ cpu.status = 203

-----------------------------------------------------------------------------
(* C12: for every byte b on top of the stack, PLP leaves P with bits 0-3,  *)
(* 6 and 7 as in b, bit 4 clear and bit 5 set, and raises S by 1 (mod 256).*)

\* the byte on top of the stack before the last pass
TopOfStack == MemByte(prev.memory, STACK + ((prev.stack_pointer + 1) % U8))

C12_PlpPullsStatus ==
    Executed({40})
        => /\ Masked(cpu.status, BREAK + BREAK2) = Masked(TopOfStack, BREAK + BREAK2)
           /\ ~contains(cpu.status, BREAK)
           /\ contains(cpu.status, BREAK2)
           /\ cpu.stack_pointer = (prev.stack_pointer + 1) % U8

\* b = $DF, bit 4 set and bit 5 clear, pulled at S = $FF as $EF
C12_Witness ==
    /\ Executed({40})
    /\ steps = 1
    /\ prev.stack_pointer = 255
    /\ TopOfStack = 223
    /\ cpu.status = 239
    /\ cpu.stack_pointer = 0

-----------------------------------------------------------------------------
(* C13: when the fetched byte is no opcode of the table, run aborts with a *)
(* panic, neither returning nor executing anything, and the panic message  *)
(* carries the byte in hexadecimal and the PC at which it was fetched.     *)

\* the string msg holds the string text somewhere
Carries(msg, text) ==
    \E i \in 1 .. (Len(msg) - Len(text) + 1) : SubSeq(msg, i, i + Len(text) - 1) = text

\* n in decimal digits
RECURSIVE format_d(_)
format_d(n) ==
    IF n < 10 THEN HexDigit[n + 1]
    ELSE format_d(n \div 10) \o HexDigit[(n % 10) + 1]

\* the last pass fetched a byte that is no opcode of the table
FetchedUnrecognised == steps > 0 /\ code >= 0 /\ code \notin Recognised

UnrecognisedAborts ==
    FetchedUnrecognised
        => /\ run = "panicked"
           /\ cpu.register_a = prev.register_a
           /\ cpu.register_x = prev.register_x
           /\ cpu.register_y = prev.register_y
           /\ cpu.status = prev.status
           /\ cpu.stack_pointer = prev.stack_pointer
           /\ cpu.memory = prev.memory
           /\ Carries(cpu.panic, format_x(code))

ReportCarriesPc ==
    FetchedUnrecognised
        => \/ Carries(cpu.panic, format_x(prev.program_counter))
           \/ Carries(cpu.panic, format_d(prev.program_counter))

C13_UnrecognisedOpcodeReport == UnrecognisedAborts /\ ReportCarriesPc

-----------------------------------------------------------------------------
(* C14: no pass of run panics but on a byte that is no opcode of the table *)
(* (or on resolving NoneAddressing): the fetch, every recognised opcode    *)
(* and all their address arithmetic complete for every register state and  *)
(* every memory content.                                                   *)

C14_OnlyUnrecognisedAborts ==
    run = "panicked"
        => \/ FetchedUnrecognised
           \/ cpu.panic = PanicMessage(ModeNotSupported)

-----------------------------------------------------------------------------
(* C15: mem_write and mem_read are defined at every address $0000..$FFFF:  *)
(* mem_write(a, v) completes, mem_read(a) then returns v, and no byte at   *)
(* another address changes.                                                *)

\* the call left every byte but those at addrs as it was
MemoryFrame(addrs) ==
    \A b \in (DOMAIN cpu.memory \cup DOMAIN cpu'.memory) \ addrs :
        MemByte(cpu'.memory, b) = MemByte(cpu.memory, b)

WriteThenRead(a, v) ==
    MemWrite(a, v)
        => /\ cpu'.panic = ""
           /\ mem_read(cpu', a) = v
           /\ MemoryFrame({a})

C15_MemoryDefinedEverywhere ==
    [][\A a \in MemAddrs, v \in MemData : WriteThenRead(a, v)]_vars

\* the same below $FFFF
C15_BelowLastAddress ==
    [][\A a \in MemAddrs \ {65535}, v \in MemData : WriteThenRead(a, v)]_vars

-----------------------------------------------------------------------------
(* C16: at every address p, $FFFF included, mem_read_u16(p) is the byte at *)
(* p with the byte at (p + 1) mod 2^16 as its high byte; mem_write_u16(p,  *)
(* v) stores the low byte of v at p and the high byte at (p + 1) mod 2^16, *)
(* so that mem_read_u16(p) then returns v.                                 *)

ReadsLittleEndian(p) ==
    mem_read_u16(cpu', p)
        = MemByte(cpu'.memory, p) + U8 * MemByte(cpu'.memory, (p + 1) % U16)

WriteThenRead16(p, v) ==
    MemWriteU16(p, v)
        => /\ cpu'.panic = ""
           /\ MemByte(cpu'.memory, p) = Lo(v)
           /\ MemByte(cpu'.memory, (p + 1) % U16) = Hi(v)
           /\ mem_read_u16(cpu', p) = v
           /\ MemoryFrame({p, (p + 1) % U16})

C16_Words ==
    [][/\ \A p \in MemAddrs : ReadsLittleEndian(p)
       /\ \A p \in MemAddrs, v \in MemWords : WriteThenRead16(p, v)]_vars

\* the same where neither byte of the word is at $FFFF
C16_BelowLastAddress ==
    [][/\ \A p \in MemAddrs \ {65534, 65535} : ReadsLittleEndian(p)
       /\ \A p \in MemAddrs \ {65534, 65535}, v \in MemWords : WriteThenRead16(p, v)]_vars

-----------------------------------------------------------------------------
(* C17: for every image of at most 0x10000 - 0x0600 bytes load completes   *)
(* and afterwards the byte at $0600 + i is image[i] for every index i of   *)
(* the image, those that fall on $FFFC..$FFFF included.                    *)

\* the indices of an image at which it holds its head and its tail, and the
\* first and the last index of the zero bytes between them
Indices(program) ==
    {i \in {0, Len(program.head), Len(program.head) + program.pad - 1}
        : 0 <= i /\ i < program_len(program)}
    \cup {i - 1 : i \in DOMAIN program.head}
    \cup {Len(program.head) + program.pad + i - 1 : i \in DOMAIN program.tail}

\* the last call was load, of an image of at most len bytes
Loaded(len) == op.name = "load" /\ program_len(op.program) <= len

C17_LoadVerbatim ==
    Loaded(64000)
        => /\ cpu.panic = ""
           /\ \A i \in Indices(op.program) :
                mem_read(cpu, 1536 + i) = program_at(op.program, i)

\* what holds of it: an image that ends before $FFFF is stored verbatim but
\* for the two bytes of the reset vector
C17_BelowLastAddress ==
    Loaded(63999)
        => /\ cpu.panic = ""
           /\ \A i \in Indices(op.program) :
                1536 + i \notin {65532, 65533}
                    => mem_read(cpu, 1536 + i) = program_at(op.program, i)

-----------------------------------------------------------------------------
(* C18: load changes no register, PC included, and no byte of memory       *)
(* outside $0600..$0600+len-1 and $FFFC..$FFFD: what was written before    *)
(* the load is still there when the program runs, and run right after      *)
(* new() and load fetches at PC = 0.                                       *)

\* the addresses load writes for an image
LoadWrites(program) == 1536 .. (1536 + program_len(program) - 1) \cup {65532, 65533}

C18_LoadFrame ==
    [][/\ (op'.name = "load" /\ cpu'.panic = "")
            => /\ cpu'.register_a = cpu.register_a
               /\ cpu'.register_x = cpu.register_x
               /\ cpu'.register_y = cpu.register_y
               /\ cpu'.status = cpu.status
               /\ cpu'.stack_pointer = cpu.stack_pointer
               /\ cpu'.program_counter = cpu.program_counter
               /\ MemoryFrame(LoadWrites(op'.program))
       /\ (op'.name = "load_and_run" /\ cpu'.panic = "")
            => MemoryFrame(LoadWrites(op'.program))
       /\ (op.name = "load" /\ cpu.panic = "" /\ calls = 1 /\ op'.name = "run")
            => cpu'.program_counter = 0
       /\ (op.name = "run" /\ calls = 2 /\ steps = 0 /\ MemByte(cpu.memory, 65533) = 6
                /\ op'.name = "step")
            => prev'.program_counter = 0 /\ code' = MemByte(cpu.memory, 0)]_vars

\* a load after register_x and page 0 were written: both are as they were
C18_Witness ==
    /\ op.name = "load"
    /\ cpu.panic = ""
    /\ program_len(op.program) > 0
    /\ cpu.register_x = 255
    /\ MemByte(cpu.memory, 16) = 85

\* a load after a load and a reset: PC stays at $0600
C18_WitnessPc ==
    /\ op.name = "load"
    /\ cpu.panic = ""
    /\ cpu.program_counter = 1536

-----------------------------------------------------------------------------
(* C19: reset sets A = X = Y = 0, P = $24, S = $FD and PC to the word at   *)
(* $FFFC, changes no memory, and a second reset changes nothing more.      *)

C19_Reset ==
    [][op'.name = "reset"
        => /\ cpu'.panic = ""
           /\ cpu'.register_a = 0
           /\ cpu'.register_x = 0
           /\ cpu'.register_y = 0
           /\ cpu'.status = 36
           /\ cpu'.stack_pointer = 253
           /\ cpu'.program_counter
                = MemByte(cpu.memory, 65532) + 256 * MemByte(cpu.memory, 65533)
           /\ cpu'.memory = cpu.memory
           /\ reset(cpu') = cpu'
           /\ op.name = "reset" => cpu' = cpu]_vars

\* a reset after a program left A, X, P and S changed, with the vector at $0600
C19_Witness ==
    /\ op.name = "reset"
    /\ steps > 0
    /\ prev.register_x = 255
    /\ prev.stack_pointer = 252
    /\ prev.status # 36
    /\ cpu.program_counter = 1536
    /\ cpu.stack_pointer = 253

-----------------------------------------------------------------------------
(* C20: run_with_callback invokes the callback exactly once before each    *)
(* fetch, the fetch of the terminating BRK included, so at return the      *)
(* callback has run once more than instructions were executed; the fetch   *)
(* reads PC and memory as the callback left them, and a callback that      *)
(* writes $00 at PC makes run return at that very fetch, no further        *)
(* instruction executed.                                                   *)

\* the struct c after a fetch of BRK at its program counter, and nothing else
ReturnedAt(c) ==
    [c EXCEPT !.memory = MemStore(c.memory, c.program_counter, 0),
              !.program_counter = (c.program_counter + 1) % U16]

C20_CallbackBeforeEachFetch ==
    [][op'.name = "step"
        => /\ hook'.count = hook.count + 1
           /\ hook'.halt_at = hook.halt_at
           /\ code' = mem_read(prev', prev'.program_counter)
           /\ IF hook.halt_at = hook'.count
              THEN /\ code' = 0
                   /\ run' = "returned"
                   /\ cpu' = ReturnedAt(cpu)
              ELSE /\ prev' = cpu
                   /\ cpu' = loop_body(cpu).cpu
           /\ (run' = "returned" /\ calls = 0) => hook'.count = steps']_vars

\* the third invocation cancelled the loop JMP $0600 after two jumps
C20_Witness ==
    /\ run = "returned"
    /\ hook = Hook(3, 3)
    /\ steps = 3
    /\ calls = 0
    /\ MemByte(entry.memory, 1536) = 76
    /\ MemByte(entry.memory, 1538) = 6
    /\ MemByte(cpu.memory, 1536) = 0
    /\ cpu.program_counter = 1537

-----------------------------------------------------------------------------
(* C21: INX, INY, DEX, DEY, INC and DEC change their target by exactly +1  *)
(* or -1 modulo 256 ($FF + 1 = $00, $00 - 1 = $FF; two INX from X = $FF    *)
(* give X = $01), set Z and N from the result and leave C and V as they    *)
(* were.                                                                   *)

\* the value the last instruction's target held before it
TargetBefore ==
    IF OPCODES_MAP[code].mnemonic \in ToX THEN prev.register_x
    ELSE IF OPCODES_MAP[code].mnemonic \in ToY THEN prev.register_y
    ELSE MemByte(prev.memory, LastAddress)

C21_IncrementDecrement ==
    /\ Executed(Mnemonics({"INX", "INY", "INC"}))
        => LastResult = (TargetBefore + 1) % 256
    /\ Executed(Mnemonics({"DEX", "DEY", "DEC"}))
        => LastResult = (TargetBefore + 255) % 256
    /\ Executed(Mnemonics({"INX", "INY", "INC", "DEX", "DEY", "DEC"}))
        => /\ contains(cpu.status, ZERO) <=> (LastResult = 0)
           /\ contains(cpu.status, NEGATIVE) <=> (LastResult >= 128)
           /\ Masked(cpu.status, ZERO + NEGATIVE) = Masked(prev.status, ZERO + NEGATIVE)
    /\ (Executed({232}) /\ steps = 2 /\ MemByte(entry.memory, entry.program_counter) = 232
            /\ entry.register_x = 255)
        => cpu.register_x = 1

\* the second INX of two, from X = $FF, with C and V set on entry
C21_Witness ==
    /\ Executed({232})
    /\ steps = 2
    /\ entry.register_x = 255
    /\ prev.register_x = 0
    /\ cpu.register_x = 1
    /\ contains(cpu.status, CARRY)
    /\ contains(cpu.status, OVERFLOW)

-----------------------------------------------------------------------------
(* C22: TAX, TAY, TSX, TXA and TYA copy the source register into the       *)
(* destination, leave the source as it was and set Z and N from the value  *)
(* copied; TXS copies X into S and changes no bit of P.                    *)

\* the status p with Z and N taken from the byte v
WithZeroNegative(p, v) ==
    Masked(p, ZERO + NEGATIVE) + (IF v = 0 THEN ZERO ELSE 0)
        + (IF v >= 128 THEN NEGATIVE ELSE 0)

C22_Transfers ==
    /\ Executed({170}) =>
        cpu = [Fetched EXCEPT !.register_x = prev.register_a,
                              !.status = WithZeroNegative(prev.status, prev.register_a)]
    /\ Executed({168}) =>
        cpu = [Fetched EXCEPT !.register_y = prev.register_a,
                              !.status = WithZeroNegative(prev.status, prev.register_a)]
    /\ Executed({186}) =>
        cpu = [Fetched EXCEPT !.register_x = prev.stack_pointer,
                              !.status = WithZeroNegative(prev.status, prev.stack_pointer)]
    /\ Executed({138}) =>
        cpu = [Fetched EXCEPT !.register_a = prev.register_x,
                              !.status = WithZeroNegative(prev.status, prev.register_x)]
    /\ Executed({152}) =>
        cpu = [Fetched EXCEPT !.register_a = prev.register_y,
                              !.status = WithZeroNegative(prev.status, prev.register_y)]
    /\ Executed({154}) =>
        cpu = [Fetched EXCEPT !.stack_pointer = prev.register_x]

\* TXS copied X = $00 over S = $DE with Z and N set, which stay so
C22_Witness ==
    /\ Executed({154})
    /\ prev.register_x = 0
    /\ prev.stack_pointer = 222
    /\ cpu.stack_pointer = 0
    /\ cpu.register_x = 0
    /\ cpu.status = 238

-----------------------------------------------------------------------------
(* C23: the opcode table has exactly 151 entries with pairwise distinct    *)
(* opcode bytes, so the map built from it has 151 keys, none overwritten:  *)
(* 151 of the 256 byte values are recognised at a fetch and the other 105  *)
(* are not.                                                                *)

\* the table and the map built from it
TableOf151 ==
    /\ Len(CPU_OPCODES) = 151
    /\ \A i, j \in DOMAIN CPU_OPCODES : CPU_OPCODES[i].code = CPU_OPCODES[j].code => i = j
    /\ \A i \in DOMAIN CPU_OPCODES : CPU_OPCODES[i].code \in Byte
    /\ Cardinality(DOMAIN OPCODES_MAP) = 151
    /\ \A i \in DOMAIN CPU_OPCODES : OPCODES_MAP[CPU_OPCODES[i].code] = CPU_OPCODES[i]
    /\ Cardinality(Byte \ DOMAIN OPCODES_MAP) = 105

C23_OpcodeTable ==
    /\ TableOf151
    /\ (steps > 0 /\ code >= 0) =>
        (code \in Recognised <=> ~Carries(cpu.panic, "is not recognised"))

\* the last entry of the table, STY absolute, was fetched and executed
C23_Witness ==
    /\ Executed({140})
    /\ CPU_OPCODES[Len(CPU_OPCODES)].code = 140
    /\ MemByte(cpu.memory, LastAddress) = prev.register_y

-----------------------------------------------------------------------------
(* C24: for each of the eight branches and every displacement byte d read  *)
(* as a signed 8-bit value ($FF and $00 included): if the condition holds, *)
(* PC after the step is (address of the displacement byte + 1 + d) mod     *)
(* 2^16, if it does not, the address of the displacement byte + 1; no      *)
(* flag, register or memory byte changes.                                  *)

Branches == {"BCC", "BCS", "BEQ", "BMI", "BNE", "BPL", "BVC", "BVS"}

\* the condition of the branch named mnemonic on the status p
Condition(mnemonic, p) ==
    CASE mnemonic = "BCC" -> ~contains(p, CARRY)
      [] mnemonic = "BCS" -> contains(p, CARRY)
      [] mnemonic = "BEQ" -> contains(p, ZERO)
      [] mnemonic = "BNE" -> ~contains(p, ZERO)
      [] mnemonic = "BMI" -> contains(p, NEGATIVE)
      [] mnemonic = "BPL" -> ~contains(p, NEGATIVE)
      [] mnemonic = "BVS" -> contains(p, OVERFLOW)
      [] mnemonic = "BVC" -> ~contains(p, OVERFLOW)

\* the displacement byte of the last instruction
Displacement == MemByte(prev.memory, Fetched.program_counter)

\* where the last branch goes
BranchTarget ==
    IF Condition(OPCODES_MAP[code].mnemonic, prev.status)
    THEN (Fetched.program_counter + 1 + Signed(Displacement) + U16) % U16
    ELSE (Fetched.program_counter + 1) % U16

C24_Branches ==
    Executed(Mnemonics(Branches))
        => cpu = [prev EXCEPT !.program_counter = BranchTarget]

\* the same for every displacement but $FF
C24_BranchesButMinusOne ==
    (Executed(Mnemonics(Branches)) /\ Displacement # 255)
        => cpu = [prev EXCEPT !.program_counter = BranchTarget]

\* a branch taken with displacement $FF goes on behind the displacement byte
C24_MinusOneFallsThrough ==
    (Executed(Mnemonics(Branches)) /\ Displacement = 255)
        => cpu = [prev EXCEPT !.program_counter = (Fetched.program_counter + 1) % U16]

-----------------------------------------------------------------------------
(* C25: JMP absolute, JMP indirect and JSR leave PC equal to the target    *)
(* they computed, whatever the target, the address of the instruction's    *)
(* own first operand byte included: the loop never adds len - 1 after a    *)
(* jump.                                                                   *)

\* the target the last JMP, JMP (p) or JSR computed
JumpTarget ==
    IF code = 108 THEN indirect_ref(Fetched, LastWord) ELSE LastWord

C25_JumpsLandOnTarget ==
    Executed({76, 108, 32}) => cpu.program_counter = JumpTarget

\* the same for every target but the address of the first operand byte
C25_ButOwnOperand ==
    (Executed({76, 108, 32}) /\ JumpTarget # Fetched.program_counter)
        => cpu.program_counter = JumpTarget

\* a jump to the first operand byte goes on two bytes behind it
C25_OwnOperandSkipsTwo ==
    (Executed({76, 108, 32}) /\ JumpTarget = Fetched.program_counter)
        => cpu.program_counter = (JumpTarget + 2) % U16

-----------------------------------------------------------------------------
(* C26: for every recognised opcode that is not a branch, JMP, JSR, RTS,   *)
(* RTI or BRK, one step leaves PC at the opcode's address plus the         *)
(* descriptor's len (mod 2^16), and that len is 1 plus the number of       *)
(* operand bytes of its addressing mode: 0 for implied and accumulator, 1  *)
(* for Immediate, ZeroPage, ZeroPage,X/Y, (Indirect,X), (Indirect),Y and   *)
(* 2 for Absolute, Absolute,X/Y.                                           *)

SetsPc == Branches \cup {"JMP", "JSR", "RTS", "RTI", "BRK"}

\* the number of operand bytes of an addressing mode
OperandBytes(mode) ==
    CASE mode = "NoneAddressing" -> 0
      [] mode \in {"Immediate", "ZeroPage", "ZeroPage_X", "ZeroPage_Y",
                   "Indirect_X", "Indirect_Y"} -> 1
      [] mode \in {"Absolute", "Absolute_X", "Absolute_Y"} -> 2

\* every descriptor of an instruction that does not set PC has the len of its mode
LenOfMode ==
    \A i \in DOMAIN CPU_OPCODES :
        CPU_OPCODES[i].mnemonic \notin SetsPc
            => CPU_OPCODES[i].len = 1 + OperandBytes(CPU_OPCODES[i].mode)

C26_PcAdvancesByLen ==
    /\ LenOfMode
    /\ Executed(Recognised \ Mnemonics(SetsPc))
        => cpu.program_counter = (prev.program_counter + OPCODES_MAP[code].len) % U16

\* LDA absolute,X, three bytes long, at $0600
C26_Witness ==
    /\ Executed({189})
    /\ prev.program_counter = 1536
    /\ cpu.program_counter = 1539
    /\ OPCODES_MAP[code].len = 3

-----------------------------------------------------------------------------
(* C27: for every a and m in 0..255 and either carry c on entry, SBC       *)
(* leaves A = (a - m - (1 - c)) mod 256 and C set exactly when             *)
(* a >= m + (1 - c) (no borrow); the operand handed to the addition,       *)
(* ((-m as signed 8-bit) - 1) mod 256, is the bitwise complement of m for  *)
(* every m, $00 and $80 included.                                          *)

\* the operand of the addition is the complement of m, for every byte m
OperandIsComplement == \A m \in Byte : sbc_operand(m) = BitXor(m, 255)

C27_Sbc ==
    /\ OperandIsComplement
    /\ Executed(Mnemonics({"SBC"}))
        => /\ cpu.register_a
                = (prev.register_a - LastOperand - (1 - Flag(prev, CARRY)) + 512) % 256
           /\ contains(cpu.status, CARRY)
                <=> prev.register_a >= LastOperand + (1 - Flag(prev, CARRY))

\* $00 - $80 with a borrow pending: A = $7F and a borrow again
C27_Witness ==
    /\ Executed({233})
    /\ prev.register_a = 0
    /\ LastOperand = 128
    /\ Flag(prev, CARRY) = 0
    /\ cpu.register_a = 127
    /\ Flag(cpu, CARRY) = 0

-----------------------------------------------------------------------------
(* C28: for ASL, LSR, ROL and ROR on the accumulator and on memory, with   *)
(* operand v and carry c on entry: the result is (v << 1) mod 256, v >> 1, *)
(* ((v << 1) mod 256) | c and (v >> 1) | (c << 7); C becomes the bit       *)
(* shifted out (bit 7 of v for ASL and ROL, bit 0 for LSR and ROR); Z and  *)
(* N follow the result; the memory forms write the result at the           *)
(* effective address and leave A as it was, the accumulator forms leave    *)
(* memory as it was.                                                       *)

OnAccumulator == OPCODES_MAP[code].mode = "NoneAddressing"

\* the operand of the last shift or rotate
ShiftOperand == IF OnAccumulator THEN prev.register_a ELSE LastOperand

\* the result of the instruction named mnemonic on v with the carry c
Shifted(mnemonic, v, c) ==
    CASE mnemonic = "ASL" -> (v * 2) % 256
      [] mnemonic = "LSR" -> v \div 2
      [] mnemonic = "ROL" -> ((v * 2) % 256) + c
      [] mnemonic = "ROR" -> (v \div 2) + 128 * c

\* the bit the instruction named mnemonic shifts out of v
ShiftedOut(mnemonic, v) == IF mnemonic \in {"ASL", "ROL"} THEN v \div 128 ELSE v % 2

C28_ShiftsAndRotates ==
    Executed(Mnemonics(Shifts))
        => /\ LastResult
                = Shifted(OPCODES_MAP[code].mnemonic, ShiftOperand, Flag(prev, CARRY))
           /\ Flag(cpu, CARRY) = ShiftedOut(OPCODES_MAP[code].mnemonic, ShiftOperand)
           /\ contains(cpu.status, ZERO) <=> (LastResult = 0)
           /\ contains(cpu.status, NEGATIVE) <=> (LastResult >= 128)
           /\ Masked(cpu.status, CARRY + ZERO + NEGATIVE)
                = Masked(prev.status, CARRY + ZERO + NEGATIVE)
           /\ cpu.register_x = prev.register_x
           /\ cpu.register_y = prev.register_y
           /\ cpu.stack_pointer = prev.stack_pointer
           /\ IF OnAccumulator
              THEN cpu.memory = prev.memory
              ELSE /\ cpu.register_a = prev.register_a
                   /\ cpu.memory = MemStore(prev.memory, LastAddress, LastResult)

\* ROR of $01 in memory with the carry set: $80, C set, N set, A as it was
C28_Witness ==
    /\ Executed({102})
    /\ LastOperand = 1
    /\ Flag(prev, CARRY) = 1
    /\ MemByte(cpu.memory, 16) = 128
    /\ Flag(cpu, CARRY) = 1
    /\ contains(cpu.status, NEGATIVE)
    /\ cpu.register_a = 1

-----------------------------------------------------------------------------
(* C29: for every A and memory operand m, BIT sets Z exactly when          *)
(* (A AND m) = 0, N to bit 7 of m and V to bit 6 of m, and changes nothing *)
(* else: A, X, Y, S, C, I, D and all memory are as they were.              *)

C29_Bit ==
    Executed(Mnemonics({"BIT"}))
        => /\ contains(cpu.status, ZERO) <=> (BitAnd(prev.register_a, LastOperand) = 0)
           /\ Flag(cpu, NEGATIVE) = LastOperand \div 128
           /\ Flag(cpu, OVERFLOW) = (LastOperand \div 64) % 2
           /\ Masked(cpu.status, ZERO + NEGATIVE + OVERFLOW)
                = Masked(prev.status, ZERO + NEGATIVE + OVERFLOW)
           /\ cpu = [prev EXCEPT !.status = cpu.status,
                                 !.program_counter = cpu.program_counter]

\* A = $0F and m = $C0: Z, N and V set from all clear, A as it was
C29_Witness ==
    /\ Executed({36})
    /\ prev.register_a = 15
    /\ LastOperand = 192
    /\ prev.status = 36
    /\ cpu.status = 36 + ZERO + NEGATIVE + OVERFLOW
    /\ cpu.register_a = 15

-----------------------------------------------------------------------------
(* C30: RTI pops P first (kept with B clear and U set), then the low byte  *)
(* of PC, then the high byte; afterwards PC is exactly the 16-bit value    *)
(* popped, with no +1 and no further adjustment, and S has grown by 3      *)
(* modulo 256.                                                             *)

\* the byte the n-th pop of the last instruction read
Popped(n) == MemByte(prev.memory, STACK + ((prev.stack_pointer + n) % 256))

C30_Rti ==
    Executed({64})
        => cpu = [prev EXCEPT
                    !.status = BitOr(BitAnd(Popped(1), 255 - BREAK), BREAK2),
                    !.program_counter = Popped(2) + 256 * Popped(3),
                    !.stack_pointer = (prev.stack_pointer + 3) % 256]

\* RTI at $0600 with S = $FE: P from $01FF, and the return address $0601,
\* the address behind the RTI itself, from $0100 and $0101
C30_Witness ==
    /\ Executed({64})
    /\ prev.stack_pointer = 254
    /\ prev.program_counter = 1536
    /\ Popped(1) = 255
    /\ cpu.status = 239
    /\ cpu.program_counter = 1537
    /\ cpu.stack_pointer = 1

-----------------------------------------------------------------------------
(* C31: the addressing-mode resolver wraps as specified for every operand  *)
(* byte b and index: ZeroPage,X and ZeroPage,Y give (b + X) mod 256 and    *)
(* (b + Y) mod 256, never leaving page 0; (Indirect,X) reads its pointer   *)
(* at (b + X) mod 256 and (b + X + 1) mod 256; (Indirect),Y reads its      *)
(* pointer at b and (b + 1) mod 256 and adds Y with 16-bit wrap;           *)
(* Absolute,X and Absolute,Y add the index to the word at PC with 16-bit   *)
(* wrap; the resolver changes no state.                                    *)

\* the operand byte of the last instruction
OperandByte == MemByte(prev.memory, Fetched.program_counter)

\* the word page 0 holds at p and (p + 1) mod 256
ZeroPageWord(p) == MemByte(prev.memory, p) + 256 * MemByte(prev.memory, (p + 1) % 256)

\* the effective address of the last instruction, as its mode names it
EffectiveAddress ==
    CASE OPCODES_MAP[code].mode = "ZeroPage_X" -> (OperandByte + prev.register_x) % 256
      [] OPCODES_MAP[code].mode = "ZeroPage_Y" -> (OperandByte + prev.register_y) % 256
      [] OPCODES_MAP[code].mode = "Indirect_X" ->
            ZeroPageWord((OperandByte + prev.register_x) % 256)
      [] OPCODES_MAP[code].mode = "Indirect_Y" ->
            (ZeroPageWord(OperandByte) + prev.register_y) % 65536
      [] OPCODES_MAP[code].mode = "Absolute_X" -> (LastWord + prev.register_x) % 65536
      [] OPCODES_MAP[code].mode = "Absolute_Y" -> (LastWord + prev.register_y) % 65536

Indexed == {"ZeroPage_X", "ZeroPage_Y", "Indirect_X", "Indirect_Y", "Absolute_X", "Absolute_Y"}

C31_Resolver ==
    (Executed(Recognised) /\ OPCODES_MAP[code].mode \in Indexed)
        => /\ LastAddress = EffectiveAddress
           /\ OPCODES_MAP[code].mode \in {"ZeroPage_X", "ZeroPage_Y"} => LastAddress < 256
           /\ OPCODES_MAP[code].mnemonic \in {"LDA", "LDX"}
                => cpu = [prev EXCEPT
                            !.register_a = IF OPCODES_MAP[code].mnemonic = "LDA"
                                           THEN MemByte(prev.memory, EffectiveAddress)
                                           ELSE prev.register_a,
                            !.register_x = IF OPCODES_MAP[code].mnemonic = "LDX"
                                           THEN MemByte(prev.memory, EffectiveAddress)
                                           ELSE prev.register_x,
                            !.status = WithZeroNegative(prev.status,
                                            MemByte(prev.memory, EffectiveAddress)),
                            !.program_counter = cpu.program_counter]

\* LDA ($FF,X) with X = $01: the pointer is read at $00 and $01
C31_Witness ==
    /\ Executed({161})
    /\ OperandByte = 255
    /\ prev.register_x = 1
    /\ MemByte(prev.memory, 0) = 52
    /\ MemByte(prev.memory, 1) = 18
    /\ LastAddress = 4660
    /\ cpu.register_a = 90

-----------------------------------------------------------------------------
(* C32: a push writes at $0100 + S and then decrements S modulo 256; a pop *)
(* increments S modulo 256 and then reads $0100 + S; for every S each      *)
(* stack access lies in $0100..$01FF (a push at S = $00 writes $0100 and   *)
(* leaves S = $FF); a 16-bit push writes the high byte first and a 16-bit  *)
(* pop reads the low byte first.                                           *)

\* S moved by n, modulo 256
Moved(n) == (prev.stack_pointer + n + 256) % 256

\* the addresses whose byte the last instruction changed
Changed ==
    {a \in DOMAIN cpu.memory \cup DOMAIN prev.memory :
        MemByte(cpu.memory, a) # MemByte(prev.memory, a)}

C32_StackProtocol ==
    /\ Executed({72})
        => /\ cpu.memory = MemStore(prev.memory, 256 + prev.stack_pointer, prev.register_a)
           /\ cpu.stack_pointer = Moved(-1)
    /\ Executed({104})
        => /\ cpu.stack_pointer = Moved(1)
           /\ cpu.register_a = MemByte(prev.memory, 256 + Moved(1))
    /\ Executed({40})
        => /\ cpu.stack_pointer = Moved(1)
           /\ BitAnd(cpu.status, 207) = BitAnd(MemByte(prev.memory, 256 + Moved(1)), 207)
    /\ Executed({32})
        => /\ cpu.memory
                = MemStore(MemStore(prev.memory, 256 + prev.stack_pointer,
                                    Hi(prev.program_counter + 2)),
                           256 + Moved(-1), Lo(prev.program_counter + 2))
           /\ cpu.stack_pointer = Moved(-2)
    /\ Executed({96})
        => /\ cpu.program_counter
                = (Popped(1) + 256 * Popped(2) + 1) % 65536
           /\ cpu.stack_pointer = Moved(2)
    /\ Executed({72, 8, 32, 104, 40, 96, 64})
        => \A a \in Changed : 256 <= a /\ a <= 511

\* PHA at S = $00 wrote $0100 and left S = $FF
C32_Witness ==
    /\ Executed({72})
    /\ prev.stack_pointer = 0
    /\ cpu.stack_pointer = 255
    /\ MemByte(cpu.memory, 256) = prev.register_a
    /\ MemByte(prev.memory, 256) # prev.register_a

-----------------------------------------------------------------------------
(* C33: STA, STX and STY write A, X, Y to the effective address and change *)
(* nothing else: no bit of P, no register, no other byte of memory.        *)

\* the register the last store wrote
Stored ==
    IF OPCODES_MAP[code].mnemonic = "STX" THEN prev.register_x
    ELSE IF OPCODES_MAP[code].mnemonic = "STY" THEN prev.register_y
    ELSE prev.register_a

C33_Stores ==
    Executed(Mnemonics({"STA", "STX", "STY"}))
        => cpu = [prev EXCEPT
                    !.memory = MemStore(prev.memory, LastAddress, Stored),
                    !.program_counter = (prev.program_counter + OPCODES_MAP[code].len) % 65536]

\* STA ($10),Y stored A = $80 at $0323 with Z, N and the other flags set before and after
C33_Witness ==
    /\ Executed({145})
    /\ prev.register_a = 128
    /\ prev.register_y = 3
    /\ LastAddress = 803
    /\ MemByte(cpu.memory, 803) = 128
    /\ prev.status = 239
    /\ cpu.status = 239

-----------------------------------------------------------------------------
(* C34: the D flag never influences arithmetic: for all A, m and C, two    *)
(* CPUs that differ only in bit 3 of P have the same A, C, Z, V and N      *)
(* after ADC and after SBC; SED and CLD change only bit 3 of P.            *)

\* the struct c with bit 3 of P the other way
OtherDecimal(c) == [c EXCEPT !.status = BitXor(c.status, DECIMAL_MODE)]

\* c and d are the same but for bit 3 of P, which differs
DifferInDecimal(c, d) == c = OtherDecimal(d)

C34_DecimalIgnored ==
    /\ Executed(Mnemonics({"ADC", "SBC"}))
        => /\ DifferInDecimal(cpu, loop_body(OtherDecimal(prev)).cpu)
           /\ Flag(cpu, DECIMAL_MODE) = Flag(prev, DECIMAL_MODE)
    /\ Executed({248})
        => cpu = [Fetched EXCEPT !.status = BitOr(prev.status, DECIMAL_MODE)]
    /\ Executed({216})
        => cpu = [Fetched EXCEPT !.status = BitAnd(prev.status, 255 - DECIMAL_MODE)]

\* $09 + $01 with D set is $0A, as it is with D clear
C34_Witness ==
    /\ Executed({105})
    /\ Flag(prev, DECIMAL_MODE) = 1
    /\ Flag(prev, CARRY) = 0
    /\ prev.register_a = 1
    /\ LastOperand = 9
    /\ cpu.register_a = 10
    /\ loop_body(OtherDecimal(prev)).cpu.register_a = 10

-----------------------------------------------------------------------------
(* C35: in every state reached from new() or reset() by executing          *)
(* instructions (with a callback that does not write P) the live status    *)
(* has bit 5 (U) set and bit 4 (B) clear: only PLP and RTI load those bits *)
(* from memory and both force B = 0, U = 1.                                *)

\* U set and B clear
UnusedSetBreakClear(p) == BitAnd(p, BREAK + BREAK2) = BREAK2

C35_BreakBitsInvariant ==
    /\ UnusedSetBreakClear(new.status)
    /\ UnusedSetBreakClear(reset(cpu).status)
    /\ (steps > 0 /\ UnusedSetBreakClear(prev.status))
        => UnusedSetBreakClear(cpu.status)

\* RTI popped a status with B set and U clear, and P has B clear and U set
C35_Witness ==
    /\ Executed({64})
    /\ UnusedSetBreakClear(prev.status)
    /\ Popped(1) = 16
    /\ cpu.status = 32
-----------------------------------------------------------------------------
(* C36: every opcode byte of the table has its own arm in the match of     *)
(* run_with_callback, and every arm that resolves an address belongs to an *)
(* opcode whose mode is not NoneAddressing: no program, whatever bytes     *)
(* memory holds, reaches the todo!() arm or the resolver's NoneAddressing  *)
(* panic.                                                                  *)

UnreachablePanics == {"not yet implemented", PanicMessage(ModeNotSupported)}

C36_ArmsCoverTable ==
    /\ cpu.panic \notin UnreachablePanics
    /\ (steps > 0 /\ prev.panic = "" /\ code \in DOMAIN OPCODES_MAP)
        => dispatch(Fetched, code, OPCODES_MAP[code]).panic \notin UnreachablePanics

\* a byte that is no opcode was fetched, and the lookup stopped the run
C36_Witness ==
    /\ FetchedUnrecognised
    /\ code = 2
    /\ cpu.panic = "OpCode " \o format_x(2) \o " is not recognised"
-----------------------------------------------------------------------------
(* C37: when run returns on BRK, the BRK step has changed only PC, which   *)
(* is the address of the BRK byte + 1: A, X, Y, P, S and every memory byte *)
(* are as the fetch found them (nothing is pushed, neither B nor I is set  *)
(* in P).                                                                  *)

-----------------------------------------------------------------------------
(* C38: only the stores (STA, STX, STY), the memory forms of ASL, LSR,     *)
(* ROL, ROR, INC, DEC and the pushes (PHA, PHP, JSR) change memory, each   *)
(* only at its effective address or at the stack bytes it pushes; every    *)
(* other instruction leaves every memory byte as it was.                   *)

\* the addresses the instruction fetched may write
Writable ==
    IF OPCODES_MAP[code].mnemonic \in {"STA", "STX", "STY"} THEN {LastAddress}
    ELSE IF OPCODES_MAP[code].mnemonic \in {"ASL", "LSR", "ROL", "ROR", "INC", "DEC"}
            /\ ~OnAccumulator
    THEN {LastAddress}
    ELSE IF OPCODES_MAP[code].mnemonic \in {"PHA", "PHP"} THEN {STACK + prev.stack_pointer}
    ELSE IF OPCODES_MAP[code].mnemonic = "JSR"
    THEN {STACK + prev.stack_pointer, STACK + Moved(-1)}
    ELSE {}

C38_MemoryWriters ==
    Executed(Recognised) => Changed \subseteq Writable

\* INC $10,X changed the byte at its effective address and no other; memory held other bytes
C38_Witness ==
    /\ Executed({246})
    /\ Changed = {LastAddress}
    /\ Writable = {LastAddress}
    /\ \E a \in DOMAIN prev.memory : a # LastAddress /\ a # prev.program_counter
-----------------------------------------------------------------------------
(* C39: for every value v and carry c, ROL followed by ROR on the same     *)
(* operand (the accumulator, or the same memory byte) restores both v and  *)
(* c, and ROR followed by ROL does likewise.                               *)

\* the address of the byte the two rotations of a pair work on, -1 for the accumulator
RotatedAt(pair) ==
    IF Len(pair) = 2 THEN -1
    ELSE IF Len(pair) = 4 THEN pair[2]
    ELSE pair[3] * U8 + pair[2] + entry.register_x

\* the value the pair's operand holds in struct c
RotatedIn(c, pair) ==
    IF RotatedAt(pair) < 0 THEN c.register_a ELSE MemByte(c.memory, RotatedAt(pair))

C39_RotationsInverse ==
    \A pair \in RotatePairs :
        PairDone(pair)
            => /\ RotatedIn(cpu, pair) = RotatedIn(entry, pair)
               /\ Flag(cpu, CARRY) = Flag(entry, CARRY)
               /\ cpu.register_a = entry.register_a
               /\ cpu.memory = entry.memory

\* ROL $0300,X then ROR $0300,X on $81 with C clear: $02 with C set in between, $81 and C clear after
C39_Witness ==
    /\ PairDone(<<62, 0, 3, 126, 0, 3>>)
    /\ RotatedIn(entry, <<62, 0, 3, 126, 0, 3>>) = 129
    /\ Flag(entry, CARRY) = 0
    /\ RotatedIn(prev, <<62, 0, 3, 126, 0, 3>>) = 2
    /\ Flag(prev, CARRY) = 1
    /\ RotatedIn(cpu, <<62, 0, 3, 126, 0, 3>>) = 129
    /\ Flag(cpu, CARRY) = 0
-----------------------------------------------------------------------------
(* load_and_run of straight-line images on the struct new() returns. The   *)
(* loop of run_with_callback runs inside the one call of load_and_run, so  *)
(* a pass that can be taken is taken: weak fairness of Step.               *)

\* instructions that neither set PC nor write memory: LDA #$05, INX, NOP,
\* SEC, ADC #$01, PLA, LDA $FFFE, LDA $FFFF, LDA $FF00,X, LDA ($10),Y, CMP #$00
Straight == {<<169, 5>>, <<232>>, <<234>>, <<56>>, <<105, 1>>, <<104>>,
             <<173, 254, 255>>, <<173, 255, 255>>, <<189, 0, 255>>, <<177, 16>>,
             <<201, 0>>}

\* images of one or two of them, with and without a closing $00, of three of
\* the first three, and an image of $F9FB bytes
StraightImages ==
    {Image(a) : a \in Straight}
        \cup {Image(a \o <<0>>) : a \in Straight}
        \cup {Image(a \o b) : a, b \in Straight}
        \cup {Image(a \o b \o c) : a, b, c \in {<<169, 5>>, <<232>>, <<173, 255, 255>>}}
        \cup {LongImage(<<232, 169, 5>>, 63995, <<234>>)}

NextLive ==
    \/ \E program \in StraightImages : calls = 0 /\ LoadAndRun(program)
    \/ Step

SpecLive == Init /\ [][NextLive]_vars /\ WF_vars(Step)

-----------------------------------------------------------------------------
(* C40: starting from new(), load_and_run of an image shorter than $F9FC   *)
(* bytes of recognised opcodes that neither alter control flow nor write   *)
(* memory eventually returns, and PC strictly increases at each step until *)
(* a $00 byte is fetched.                                                  *)

\* a pass of the loop moves PC up
PcIncreases == [][steps' = steps + 1 => cpu'.program_counter > cpu.program_counter]_vars

C40_StraightLineReturns ==
    /\ (calls = 1) ~> (run = "returned")
    /\ PcIncreases

\* the same for the runs that do not read the byte at $FFFF
C40_ReturnsButAtLastByte ==
    /\ (calls = 1) ~> (run = "returned" \/ cpu.panic = PanicMessage(IndexOutOfBounds))
    /\ [][(steps' = steps + 1 /\ cpu'.panic = "")
            => cpu'.program_counter > cpu.program_counter]_vars

\* a run panics only on LDA $FFFF
C40_OnlyLastByteAborts ==
    run = "panicked"
        => /\ code = 173
           /\ LastAddress = 65535
           /\ cpu.panic = PanicMessage(IndexOutOfBounds)

\* LDA #$05; INX; BRK was loaded and run and has returned at the $00 past the image
C40_Witness ==
    /\ run = "returned"
    /\ steps = 3
    /\ MemByte(cpu.memory, 1536) = 169
    /\ MemByte(cpu.memory, 1538) = 232
    /\ cpu.program_counter = 1540
    /\ cpu.register_a = 5
    /\ cpu.register_x = 1

\* LDA $FFFF was fetched and the run has panicked
C40_LastByteRead ==
    /\ run = "panicked"
    /\ steps = 1
    /\ code = 173
    /\ LastAddress = 65535

====
